---------------------------- MODULE Spec2Model ----------------------------
(***************************************************************************)
(* A model of the submission validation engine of prefect-toolkit:         *)
(*   src/src/commons/utils.py      ReadSubmTsv  (read_tsv, get_type, ...)  *)
(*   src/src/commons/submval.py    SubmVal      (the six rules)            *)
(*   src/src/commons/datamodel.py  ReadDataModel (the schema normalizer)   *)
(*                                                                         *)
(* Text.  A Python str is modelled as a sequence of lexemes.  The lexemes  *)
(* " " (a blank), ";" and "|" (the commons delimiters) and, in a column    *)
(* header, "." are the characters the code inspects; every other lexeme    *)
(* is a maximal run of characters the code never looks into ("A", "k1",    *)
(* "study_id", "N/A").  So "A;Z" is <<"A", ";", "Z">>, " A" is             *)
(* <<" ", "A">>, "study.study_id" is <<"study", ".", "study_id">> and the  *)
(* empty str is <<>>.  str.strip, str.split and the `in` substring test    *)
(* are computed on this form.                                              *)
(***************************************************************************)
EXTENDS Integers, Sequences, FiniteSets, TLC

VARIABLES
    props_df,   \* ReadDataModel.props_df: the normalized schema table
    files,      \* SubmVal.filepath_list with the content of every tsv file
    call,       \* the operation that returned last ("none" at first)
    ret,        \* what that operation returned: [raised, text]
    model_desc, \* the model description ReadDataModel reads (Nodes, PropDefinitions)
    norm,       \* what get_prop_dict_df returned: [called, raised, table]
    flow,       \* the write_report flow: [pc, skip_uniq_key, commons_acronym, report]
    dbgap       \* the arguments of the dbGaP comparisons: the DB and dbGaP dicts

vars == <<props_df, files, call, ret, model_desc, norm, flow, dbgap>>

(***************************************************************************)
(* Bounds of the model                                                     *)
(***************************************************************************)
MaxRows == 3

(***************************************************************************)
(* Sequence helpers (pandas / Python list primitives)                      *)
(***************************************************************************)
Range(s) == {s[i] : i \in 1..Len(s)}

Contains(s, x) == \E i \in 1..Len(s) : s[i] = x

\* Series.unique(): the distinct values in order of first appearance
RECURSIVE unique(_)
unique(s) ==
    IF s = <<>> THEN <<>>
    ELSE LET u == unique(SubSeq(s, 1, Len(s) - 1))
             x == s[Len(s)]
         IN  IF Contains(u, x) THEN u ELSE Append(u, x)

\* the sequences that list every element of the finite set S exactly once
RECURSIVE Perms(_)
Perms(S) ==
    IF S = {} THEN {<<>>}
    ELSE UNION {{<<x>> \o p : p \in Perms(S \ {x})} : x \in S}

\* all sequences s with Len(s) = Len(sets) and s[i] \in sets[i]
RECURSIVE SeqProduct(_)
SeqProduct(sets) ==
    IF sets = <<>> THEN {<<>>}
    ELSE {<<x>> \o t : x \in Head(sets), t \in SeqProduct(Tail(sets))}

\* Python's sequence concatenation of a list of lists
RECURSIVE Flatten(_)
Flatten(ss) == IF ss = <<>> THEN <<>> ELSE Head(ss) \o Flatten(Tail(ss))

\* the sequences over S of length 1..n
SeqsUpTo(S, n) == UNION {[1..k -> S] : k \in 1..n}

(***************************************************************************)
(* str primitives on the lexeme form                                       *)
(***************************************************************************)
Blank == " "

\* str.strip(): drop leading and trailing whitespace
RECURSIVE lstrip(_)
lstrip(s) == IF s # <<>> /\ Head(s) = Blank THEN lstrip(Tail(s)) ELSE s

RECURSIVE rstrip(_)
rstrip(s) ==
    IF s # <<>> /\ s[Len(s)] = Blank THEN rstrip(SubSeq(s, 1, Len(s) - 1)) ELSE s

strip(s) == rstrip(lstrip(s))

\* str.split(sep) for a one-character sep: the pieces between the separators
RECURSIVE split(_, _)
split(s, sep) ==
    IF ~Contains(s, sep) THEN <<s>>
    ELSE LET i == CHOOSE k \in 1..Len(s) :
                      s[k] = sep /\ \A j \in 1..(k - 1) : s[j] # sep
         IN  <<SubSeq(s, 1, i - 1)>> \o split(SubSeq(s, i + 1, Len(s)), sep)

(***************************************************************************)
(* ReadSubmTsv: reading a tsv file                                         *)
(***************************************************************************)
\* the float NaN pandas stores for a missing cell; no str equals it
NaN == <<"<float nan>">>

\* variant: only the blank cell is read as absent
na_values_blank_only == { <<>> }

\* read_csv(na_values=["NA", "na", "N/A", "n/a", ""]) on top of the pandas
\* defaults (keep_default_na is left True)
na_values ==
    { <<>>, <<"NA">>, <<"na">>, <<"N/A">>, <<"n/a">>,
      <<"#N/A">>, <<"#N/A", " ", "N/A">>, <<"#NA">>, <<"-1.#IND">>, <<"-1.#QNAN">>,
      <<"-NaN">>, <<"-nan">>, <<"1.#IND">>, <<"1.#QNAN">>, <<"<NA>">>,
      <<"NULL">>, <<"NaN">>, <<"None">>, <<"nan">>, <<"null">> }

\* A tsv file is [path, header, lines]: the header cells and, per data line,
\* one cell per header cell.  read_tsv gives the DataFrame [columns, data].
read_tsv(file) ==
    [ columns |-> file.header,
      data    |-> [i \in 1..Len(file.lines) |->
                     [j \in 1..Len(file.header) |->
                        IF file.lines[i][j] \in na_values THEN NaN
                        ELSE file.lines[i][j]]] ]

\* df[name]: the column as a sequence of cells (KeyError when name is no column)
HasColumn(df, name) == Contains(df.columns, name)

Column(df, name) ==
    LET j == CHOOSE k \in 1..Len(df.columns) : df.columns[k] = name
    IN  [i \in 1..Len(df.data) |-> df.data[i][j]]

isna(v) == v = NaN

notna(v) == v # NaN

dropna(s) == SelectSeq(s, notna)

\* np.where(mask)[0]: the zero-based positions at which the mask is True
RECURSIVE where_from(_, _)
where_from(mask, i) ==
    IF i > Len(mask) THEN <<>>
    ELSE IF mask[i] THEN <<i - 1>> \o where_from(mask, i + 1)
         ELSE where_from(mask, i + 1)

where(mask) == where_from(mask, 1)

\* the "+ 2" of every rule: zero-based row index to the line number of the file
\* (the header is line 1)
RowOffset == 2

\* variant: one-based row numbers that do not count the header line
plus_offset_without_header(positions) ==
    [k \in 1..Len(positions) |-> positions[k] + 1]

plus_offset(positions) == [k \in 1..Len(positions) |-> positions[k] + RowOffset]

TypeColumn == <<"type">>

\* get_type: [raised, value]
get_type(file) ==
    LET tsv_df == read_tsv(file)
    IN  IF ~HasColumn(tsv_df, TypeColumn)
        THEN [raised |-> "ValueError", value |-> <<>>]
        ELSE LET type_uniq == unique(Column(tsv_df, TypeColumn))
             IN  IF Len(type_uniq) > 1
                 THEN [raised |-> "ValueError", value |-> <<>>]
                 ELSE IF Len(type_uniq) = 0
                 THEN [raised |-> "IndexError", value |-> <<>>]
                 ELSE [raised |-> "none", value |-> type_uniq[1]]

\* file_type_mapping: [raised, mapping], the mapping a set of <<type, file index>>
RECURSIVE file_type_mapping_from(_, _, _)
file_type_mapping_from(filepath_list, i, node_file_mapping) ==
    IF i > Len(filepath_list) THEN [raised |-> "none", mapping |-> node_file_mapping]
    ELSE LET t == get_type(filepath_list[i])
         IN  IF t.raised # "none" THEN [raised |-> t.raised, mapping |-> {}]
             ELSE IF \E m \in node_file_mapping : m[1] = t.value
             THEN [raised |-> "ValueError", mapping |-> {}]
             ELSE file_type_mapping_from(filepath_list, i + 1,
                                         node_file_mapping \cup {<<t.value, i>>})

\* variant: a later file of a node type replaces the earlier one, nothing is raised
file_type_mapping_last_wins(filepath_list) ==
    IF \E i \in 1..Len(filepath_list) : get_type(filepath_list[i]).raised # "none"
    THEN [raised |-> "ValueError", mapping |-> {}]
    ELSE [raised |-> "none",
          mapping |-> {<<get_type(filepath_list[i]).value, i>> :
                          i \in {k \in 1..Len(filepath_list) :
                                    \A j \in (k + 1)..Len(filepath_list) :
                                        get_type(filepath_list[j]).value
                                            # get_type(filepath_list[k]).value}}]

file_type_mapping(filepath_list) == file_type_mapping_from(filepath_list, 1, {})

\* the exception the first failing get_type of the list raises, "none" if none does
RECURSIVE first_type_error(_)
first_type_error(filepath_list) ==
    IF filepath_list = <<>> THEN "none"
    ELSE LET t == get_type(Head(filepath_list))
         IN  IF t.raised # "none" THEN t.raised
             ELSE first_type_error(Tail(filepath_list))

(***************************************************************************)
(* Report text.  A rule returns its section: one block per file, each      *)
(* [node, msgs, table]; msgs are the lines printed above the table, the    *)
(* table rows are the records of check_list.  A finding carries the        *)
(* columns of both table shapes of the code, "error row" (row numbers) and *)
(* "error value" (values); the one its rule does not write is empty.       *)
(***************************************************************************)
Finding(node, property, check, error_row, error_value) ==
    [ node |-> node, property |-> property, check |-> check,
      error_row |-> error_row, error_value |-> error_value ]

Msg(text, props, rows) == [text |-> text, props |-> props, rows |-> rows]

Block(node, msgs, table) == [node |-> node, msgs |-> msgs, table |-> table]

Returned(text) == [raised |-> "none", text |-> text]

Raised(e) == [raised |-> e, text |-> <<>>]

PASS == <<"PASS">>
ERROR == <<"ERROR">>
EMPTY == <<"empty">>

WARNING_FREE == <<"WARNING", "\n", "free strings allowed">>
ERROR_UNRECOGNIZED == <<"ERROR", "\n", "unrecognized value">>

\* one file's outcome: the block it contributes, or the exception it raises
FileOk(block) == [raised |-> "none", block |-> block]

FileRaised(e) == [raised |-> e, block |-> Block(<<>>, <<>>, <<>>)]

\* the loop "for file in self.filepath_list": the section, or the first exception
combine_files(outcomes) ==
    IF \E i \in 1..Len(outcomes) : outcomes[i].raised # "none"
    THEN LET i == CHOOSE k \in 1..Len(outcomes) :
                      /\ outcomes[k].raised # "none"
                      /\ \A j \in 1..(k - 1) : outcomes[j].raised = "none"
         IN  Raised(outcomes[i].raised)
    ELSE Returned([i \in 1..Len(outcomes) |-> outcomes[i].block])

df_column(df, name) == [i \in 1..Len(df) |-> df[i][name]]

(***************************************************************************)
(* Rule 1: required properties                                             *)
(***************************************************************************)
required_finding(node_type, property, column) ==
    LET mask == [i \in 1..Len(column) |-> isna(column[i])]
    IN  IF \E i \in 1..Len(mask) : mask[i]
        THEN Finding(node_type, property, ERROR, plus_offset(where(mask)), <<>>)
        ELSE Finding(node_type, property, PASS, <<>>, <<>>)

validate_required_properties_one_file(file, req_prop_list) ==
    LET file_df == read_tsv(file)
        node_type == get_type(file)
        properties == file_df.columns
        unfound_property ==
            SelectSeq(req_prop_list, LAMBDA i : ~Contains(properties, i))
        msgs == IF Len(unfound_property) > 0
                THEN <<Msg("ERROR: Required property not found in file",
                           unfound_property, <<>>)>>
                ELSE <<>>
        checked == SelectSeq(properties, LAMBDA p : Contains(req_prop_list, p))
    IN  IF node_type.raised # "none" THEN FileRaised(node_type.raised)
        ELSE FileOk(Block(node_type.value, msgs,
                 [k \in 1..Len(checked) |->
                    required_finding(node_type.value, checked[k],
                                     Column(file_df, checked[k]))]))

\* "Yes" when the Required column of the whole table holds a "Yes", else True
required_value(prop_df) ==
    IF Contains(df_column(prop_df, "Required"), "Yes") THEN "Yes" ELSE "True"

required_prop_list(prop_df, file_type) ==
    unique(df_column(
        SelectSeq(prop_df, LAMBDA r : r.Node = file_type
                                    /\ r.Required = required_value(prop_df)),
        "Property"))

validate_required_properties(prop_df, filepath_list) ==
    combine_files(
        [i \in 1..Len(filepath_list) |->
            LET file_type == get_type(filepath_list[i])
            IN  IF file_type.raised # "none" THEN FileRaised(file_type.raised)
                ELSE validate_required_properties_one_file(
                         filepath_list[i],
                         required_prop_list(prop_df, file_type.value))])

(***************************************************************************)
(* Rule 2: whitespace                                                      *)
(***************************************************************************)
fillna_empty(v) == IF isna(v) THEN <<>> ELSE v

str_strip(v) == IF isna(v) THEN NaN ELSE strip(v)

\* variant: only trailing whitespace is compared
whitespace_mask_trailing_only(column) ==
    [i \in 1..Len(column) |->
        fillna_empty(column[i]) # fillna_empty(IF isna(column[i]) THEN NaN
                                                ELSE rstrip(column[i]))]

whitespace_mask(column) ==
    [i \in 1..Len(column) |->
        fillna_empty(column[i]) # fillna_empty(str_strip(column[i]))]

validate_whitespace_issue_one_file(file) ==
    LET file_df == read_tsv(file)
        node_type == get_type(file)
        properties == file_df.columns
        reported ==
            SelectSeq(properties,
                LAMBDA p :
                    LET column == Column(file_df, p)
                    IN  /\ ~(\A i \in 1..Len(column) : isna(column[i]))
                        /\ \E i \in 1..Len(column) : whitespace_mask(column)[i])
    IN  IF node_type.raised # "none" THEN FileRaised(node_type.raised)
        ELSE FileOk(Block(node_type.value, <<>>,
                 [k \in 1..Len(reported) |->
                    Finding(node_type.value, reported[k], ERROR,
                        plus_offset(where(whitespace_mask(
                            Column(file_df, reported[k])))), <<>>)]))

validate_whitespace_issue(filepath_list) ==
    combine_files([i \in 1..Len(filepath_list) |->
                      validate_whitespace_issue_one_file(filepath_list[i])])

(***************************************************************************)
(* Rule 3: terms and value sets (enumerated values)                        *)
(***************************************************************************)
\* CommonsFeat: the delimiter of each commons
CommonsFeat ==
    [icdc |-> ";", ccdi |-> ";", cds |-> "|", c3dc |-> ";"]

\* commons_delimiter: [raised, value]
commons_delimiter(commons_acronym) ==
    IF commons_acronym \notin DOMAIN CommonsFeat
    THEN [raised |-> "ValueError", value |-> ""]
    ELSE [raised |-> "none", value |-> CommonsFeat[commons_acronym]]

\* invalid_list of the array branch before it is deduplicated
array_invalid_list(unique_values, property_enum_list, delimiter) ==
    Flatten([k \in 1..Len(unique_values) |->
        LET v == unique_values[k]
        IN  IF Contains(v, delimiter)
            THEN SelectSeq(split(v, delimiter),
                           LAMBDA i : ~Contains(property_enum_list, i))
            ELSE IF ~Contains(property_enum_list, v) THEN <<v>> ELSE <<>>])

\* variant: the invalid list is kept as collected, repeats included
list_with_repeats(invalid_list) == {invalid_list}

\* list(set(invalid_list)): the elements once each, in the iteration order of a
\* Python set of str, which the interpreter's hash seed decides; every order is
\* an outcome
list_of_set(invalid_list) == Perms(Range(invalid_list))

\* invalid_list of the branch for a type that is no array
scalar_invalid_list(unique_values, property_enum_list) ==
    SelectSeq(unique_values, LAMBDA v : ~Contains(property_enum_list, v))

\* variant: every enum is strict
terms_check_always_error(property_type) == ERROR_UNRECOGNIZED

terms_check(property_type) ==
    IF Contains(property_type, "string") THEN WARNING_FREE ELSE ERROR_UNRECOGNIZED

\* the records check_list may get for one enum property of the file
terms_findings(node_type, property, property_type, enum_list, column, delimiter) ==
    LET unique_values == unique(dropna(column))
        invalid_lists ==
            IF Contains(property_type, "array")
            THEN list_of_set(array_invalid_list(unique_values,
                                                enum_list, delimiter))
            ELSE {scalar_invalid_list(unique_values, enum_list)}
    IN  IF Len(unique_values) = 0
        THEN {Finding(node_type, property, EMPTY, <<>>, <<>>)}
        ELSE {IF Len(invalid_list) > 0
              THEN Finding(node_type, property, terms_check(property_type),
                           <<>>, invalid_list)
              ELSE Finding(node_type, property, PASS, <<>>, <<>>)
                 : invalid_list \in invalid_lists}

\* the first row of prop_df_node for the property (.values[0], .tolist()[0])
first_row(df, property) ==
    df[CHOOSE k \in 1..Len(df) :
           df[k].Property = property /\ \A j \in 1..(k - 1) : df[j].Property # property]

\* the outcomes of one file: a set, one per order of the invalid lists
validate_terms_value_sets_one_file(file, prop_df, delimiter) ==
    LET file_df == read_tsv(file)
        properties == file_df.columns
        node_type == get_type(file)
        prop_df_node ==
            SelectSeq(prop_df, LAMBDA r : r.Node = node_type.value
                                        /\ Contains(r.Type, "enum"))
        checked ==
            SelectSeq(properties,
                LAMBDA p : Contains(df_column(prop_df_node, "Property"), p))
    IN  IF node_type.raised # "none" THEN {FileRaised(node_type.raised)}
        ELSE {FileOk(Block(node_type.value, <<>>, table)) :
                table \in SeqProduct(
                    [k \in 1..Len(checked) |->
                        terms_findings(node_type.value, checked[k],
                            first_row(prop_df_node, checked[k]).Type,
                            first_row(prop_df_node, checked[k]).Example_value,
                            Column(file_df, checked[k]), delimiter)])}

\* the set of values validate_terms_value_sets may return
validate_terms_value_sets(prop_df, filepath_list, commons_acronym) ==
    LET delimiter == commons_delimiter(commons_acronym)
    IN  IF delimiter.raised # "none" THEN {Raised(delimiter.raised)}
        ELSE {combine_files(outcomes) :
                outcomes \in SeqProduct(
                    [i \in 1..Len(filepath_list) |->
                        validate_terms_value_sets_one_file(
                            filepath_list[i], prop_df, delimiter.value)])}

(***************************************************************************)
(* Rule 4: numeric and integer                                             *)
(***************************************************************************)
\* the lexemes int() accepts, and those float() accepts beyond them; int() and
\* float() strip surrounding whitespace first
IntLexemes == {"0", "1", "12", "-3"}

FloatOnlyLexemes == {"1.5", "1e3", "inf"}

int_parses(v) ==
    Len(strip(v)) = 1 /\ strip(v)[1] \in IntLexemes

float_parses(v) ==
    Len(strip(v)) = 1 /\ strip(v)[1] \in IntLexemes \cup FloatOnlyLexemes

\* variant: every column is parsed as a float
numeric_error_mask_as_float(column, property_type) ==
    [i \in 1..Len(column) |-> notna(column[i]) /\ ~float_parses(column[i])]

numeric_error_mask(column, property_type) ==
    [i \in 1..Len(column) |->
        /\ notna(column[i])
        /\ IF property_type = <<"number">> THEN ~float_parses(column[i])
           ELSE ~int_parses(column[i])]

numeric_finding(file_type, property, property_type, column) ==
    IF Len(dropna(column)) > 0
    THEN LET error_rows == plus_offset(where(numeric_error_mask(column, property_type)))
         IN  IF Len(error_rows) > 0
             THEN Finding(file_type, property, ERROR, error_rows, <<>>)
             ELSE Finding(file_type, property, PASS, <<>>, <<>>)
    ELSE Finding(file_type, property, EMPTY, <<>>, <<>>)

\* dict(zip(Property, Type))[property]: the last row of the property wins
last_row(df, property) ==
    df[CHOOSE k \in 1..Len(df) :
           df[k].Property = property
           /\ \A j \in (k + 1)..Len(df) : df[j].Property # property]

validate_numeric_integer_one_file(file, file_numeric_df) ==
    LET file_df == read_tsv(file)
        file_type == get_type(file)
        properties == file_df.columns
        checked ==
            SelectSeq(properties,
                LAMBDA p : Contains(df_column(file_numeric_df, "Property"), p))
    IN  IF file_type.raised # "none" THEN FileRaised(file_type.raised)
        ELSE FileOk(Block(file_type.value, <<>>,
                 [k \in 1..Len(checked) |->
                    numeric_finding(file_type.value, checked[k],
                        last_row(file_numeric_df, checked[k]).Type,
                        Column(file_df, checked[k]))]))

validate_numeric_integer(prop_df, filepath_list) ==
    combine_files(
        [i \in 1..Len(filepath_list) |->
            LET file_type == get_type(filepath_list[i])
            IN  IF file_type.raised # "none" THEN FileRaised(file_type.raised)
                ELSE validate_numeric_integer_one_file(
                         filepath_list[i],
                         SelectSeq(prop_df,
                             LAMBDA r : r.Type \in {<<"integer">>, <<"number">>}
                                        /\ r.Node = file_type.value))])

(***************************************************************************)
(* Rule 5: cross links                                                     *)
(***************************************************************************)
Dot == "."

\* file_df.filter(like=".", axis=1).columns.tolist()
link_props_of(file_df) == SelectSeq(file_df.columns, LAMBDA c : Contains(c, Dot))

\* row[link_props].dropna().tolist() of the row at position i
link_row_values(file_df, i) ==
    LET link_props == link_props_of(file_df)
    IN  dropna([k \in 1..Len(link_props) |-> Column(file_df, link_props[k])[i]])

\* variant: rows that lack a value in some linking column
link_missing_row_any_column(file_df) ==
    plus_offset(where([i \in 1..Len(file_df.data) |->
        Len(link_row_values(file_df, i)) < Len(link_props_of(file_df))]))

\* rows without any link value
link_missing_row(file_df) ==
    plus_offset(where([i \in 1..Len(file_df.data) |->
        Cardinality(Range(link_row_values(file_df, i))) = 0]))

\* rows with more than one (distinct) link value
link_multiple_row(file_df) ==
    plus_offset(where([i \in 1..Len(file_df.data) |->
        Cardinality(Range(link_row_values(file_df, i))) > 1]))

\* variant: the link values that are found in the parent
matched_values(link_values, linking_values) ==
    SelectSeq(link_values, LAMBDA id : Contains(linking_values, id))

\* the values of link_values that are not among linking_values
mis_match_values(link_values, linking_values) ==
    SelectSeq(link_values, LAMBDA id : ~Contains(linking_values, id))

\* variant: a parent without a file is passed over
file_not_found_passes(parent_type) == PASS

FILE_NOT_FOUND(parent_type) ==
    <<"ERROR:", "\n", "File for [">> \o parent_type \o <<"] not found">>

\* one turn of "for link_prop in link_props": [raised, msgs, finding]
link_check(file_df, file_type, link_prop, filepath_list, type_mapping_dict) ==
    LET link_values == unique(dropna(Column(file_df, link_prop)))
        pieces == split(link_prop, Dot)
        has_space == Contains(pieces[1], Blank)
        parent_type == IF has_space THEN strip(pieces[1]) ELSE pieces[1]
        parent_type_key == pieces[2]
        msgs == IF Len(link_values) > 0 /\ has_space
                THEN <<Msg("ERROR: the linking property has space found",
                           <<link_prop>>, <<>>)>>
                ELSE <<>>
        found == \E m \in type_mapping_dict : m[1] = parent_type
        parent_df ==
            read_tsv(filepath_list[
                (CHOOSE m \in type_mapping_dict : m[1] = parent_type)[2]])
        none == Finding(file_type, link_prop, EMPTY, <<>>, <<>>)
    IN  IF Len(link_values) = 0
        THEN [raised |-> "none", msgs |-> msgs, finding |-> none]
        ELSE IF ~found
        THEN [raised |-> "none", msgs |-> msgs,
              finding |-> Finding(file_type, link_prop,
                                  FILE_NOT_FOUND(parent_type), <<>>, <<>>)]
        ELSE IF ~HasColumn(parent_df, parent_type_key)
        THEN [raised |-> "KeyError", msgs |-> msgs, finding |-> none]
        ELSE LET linking_values ==
                     unique(dropna(Column(parent_df, parent_type_key)))
                 bad == mis_match_values(link_values, linking_values)
             IN  [raised |-> "none", msgs |-> msgs,
                  finding |->
                     IF Len(bad) > 0
                     THEN Finding(file_type, link_prop, ERROR, <<>>, bad)
                     ELSE Finding(file_type, link_prop, PASS, <<>>, <<>>)]

validate_cross_links_one_file(file, filepath_list, type_mapping_dict) ==
    LET file_df == read_tsv(file)
        file_type == get_type(file)
        link_props == link_props_of(file_df)
        zero_msgs ==
            IF Len(link_props) > 0 /\ Len(link_missing_row(file_df)) > 0
            THEN <<Msg("ERROR: The entry on row contains ZERO links",
                       <<>>, link_missing_row(file_df))>>
            ELSE <<>>
        multiple_msgs ==
            IF Len(link_props) > 1 /\ Len(link_multiple_row(file_df)) > 0
            THEN <<Msg("WARNING: The entry on row contains multiple links",
                       <<>>, link_multiple_row(file_df))>>
            ELSE <<>>
        checks == [k \in 1..Len(link_props) |->
                      link_check(file_df, file_type.value, link_props[k],
                                 filepath_list, type_mapping_dict)]
    IN  IF file_type.raised # "none" THEN FileRaised(file_type.raised)
        ELSE IF \E k \in 1..Len(checks) : checks[k].raised # "none"
        THEN FileRaised("KeyError")
        ELSE FileOk(Block(file_type.value,
                 zero_msgs \o multiple_msgs
                     \o Flatten([k \in 1..Len(checks) |-> checks[k].msgs]),
                 [k \in 1..Len(checks) |-> checks[k].finding]))

validate_cross_links(filepath_list) ==
    LET type_mapping_dict == file_type_mapping(filepath_list)
    IN  IF type_mapping_dict.raised # "none" THEN Raised(type_mapping_dict.raised)
        ELSE combine_files(
                 [i \in 1..Len(filepath_list) |->
                     validate_cross_links_one_file(
                         filepath_list[i], filepath_list,
                         type_mapping_dict.mapping)])

(***************************************************************************)
(* Rule 6: unique key id                                                   *)
(***************************************************************************)
\* the number of cells of the column equal to v
count_of(column, v) == Cardinality({i \in 1..Len(column) : column[i] = v})

\* variant: every distinct value of the column
all_key_values(column) == unique(SelectSeq(column, notna))

\* the distinct values with more than one dropna'd instance, by first appearance
not_unique_key_values(column) ==
    unique(SelectSeq(column, LAMBDA v : notna(v) /\ count_of(column, v) > 1))

unique_key_finding(file_type, key_prop, column) ==
    IF \E i \in 1..Len(column) : notna(column[i])
    THEN IF Len(dropna(column)) # Len(unique(dropna(column)))
         THEN Finding(file_type, key_prop, ERROR, <<>>,
                      not_unique_key_values(column))
         ELSE Finding(file_type, key_prop, PASS, <<>>, <<>>)
    ELSE Finding(file_type, key_prop, EMPTY, <<>>, <<>>)

validate_unique_key_id_one_file(file, node_key_df) ==
    LET file_type == get_type(file)
        file_df == read_tsv(file)
        key_props ==
            df_column(SelectSeq(node_key_df, LAMBDA r : r.Key = "True"), "Property")
    IN  IF file_type.raised # "none" THEN FileRaised(file_type.raised)
        ELSE IF Len(SelectSeq(df_column(node_key_df, "Key"),
                              LAMBDA k : k # "NaN")) > 0
        THEN IF \E k \in 1..Len(key_props) : ~HasColumn(file_df, key_props[k])
             THEN FileRaised("KeyError")
             ELSE FileOk(Block(file_type.value, <<>>,
                      [k \in 1..Len(key_props) |->
                          unique_key_finding(file_type.value, key_props[k],
                                             Column(file_df, key_props[k]))]))
        ELSE FileOk(Block(file_type.value,
                 <<Msg("WARNING: node file contains no Key id property",
                       <<>>, <<>>)>>, <<>>))

validate_unique_key_id(prop_df, filepath_list) ==
    combine_files(
        [i \in 1..Len(filepath_list) |->
            LET file_type == get_type(filepath_list[i])
            IN  IF file_type.raised # "none" THEN FileRaised(file_type.raised)
                ELSE validate_unique_key_id_one_file(
                         filepath_list[i],
                         SelectSeq(prop_df, LAMBDA r : r.Node = file_type.value))])

(***************************************************************************)
(* ReadDataModel: the schema normalizer                                    *)
(*                                                                         *)
(* A property definition (prop_dict) is the record                         *)
(*   [Req, Key, Strict : "absent" or the value,                            *)
(*    Enum : [present, values]                 (the top-level Enum key),   *)
(*    Type : [kind : "absent" | "str" | "list" | "dict",                   *)
(*            str        : the type name when kind = "str",                *)
(*            value_type : [kind : "absent" | "str" | "other", str],       *)
(*            Enum       : [present, values]   (Type["Enum"]),             *)
(*            Type       : [present, str]      (Type["Type"])]]            *)
(* The keys Desc and Term only feed the Description and CDE columns and    *)
(* are left out.                                                           *)
(***************************************************************************)
T_string == <<"string">>
T_enum == <<"enum">>
T_string_enum == <<"string", ";", "enum">>
T_array_string == <<"array", "[", "string", "]">>
T_array_enum == <<"array", "[", "enum", "]">>
T_array_string_enum == <<"array", "[", "string", ";", "enum", "]">>

Prop(prop_type, prop_enum_list, prop_required, prop_key) ==
    [ raised |-> "none", prop_type |-> prop_type,
      prop_enum_list |-> prop_enum_list,
      prop_required |-> prop_required, prop_key |-> prop_key ]

PropRaised(e) ==
    [ raised |-> e, prop_type |-> <<>>, prop_enum_list |-> <<>>,
      prop_required |-> "", prop_key |-> "" ]

\* if "Req" in prop_dict.keys() ... else "No"
read_prop_required(prop_dict) ==
    IF prop_dict.Req # "absent" THEN prop_dict.Req ELSE "No"

\* if "Key" in prop_dict.keys() ... else np.nan
read_prop_key(prop_dict) ==
    IF prop_dict.Key # "absent" THEN prop_dict.Key ELSE "NaN"

\* variant: the chain without the tests on Strict
read_dict_type_without_strict(prop_dict) ==
    LET Type == prop_dict.Type
        vt == Type.value_type
        is(name) == vt.kind = "str" /\ vt.str = <<name>>
        typed(t) == [raised |-> "none", prop_type |-> t]
    IN  IF vt.kind = "absent" THEN typed(T_string)
        ELSE IF is("string") /\ Type.Enum.present THEN typed(T_enum)
        ELSE IF is("list") /\ Type.Type.present THEN typed(T_array_string)
        ELSE IF is("list") /\ Type.Enum.present THEN typed(T_array_enum)
        ELSE IF vt.kind = "str" THEN typed(vt.str)
        ELSE [raised |-> "TypeError", prop_type |-> <<>>]

\* the if/elif chain on a Type that is a dict: [raised, prop_type]
read_dict_type(prop_dict) ==
    LET Type == prop_dict.Type
        vt == Type.value_type
        is(name) == vt.kind = "str" /\ vt.str = <<name>>
        strict_missing == prop_dict.Strict = "absent"
        typed(t) == [raised |-> "none", prop_type |-> t]
        KeyErr == [raised |-> "KeyError", prop_type |-> <<>>]
    IN  IF vt.kind = "absent" THEN typed(T_string)
        ELSE IF is("string") /\ Type.Enum.present /\ strict_missing THEN KeyErr
        ELSE IF is("string") /\ Type.Enum.present /\ prop_dict.Strict = "False"
        THEN typed(T_string_enum)
        ELSE IF is("string") /\ Type.Enum.present /\ prop_dict.Strict = "True"
        THEN typed(T_enum)
        ELSE IF is("list") /\ Type.Type.present THEN typed(T_array_string)
        ELSE IF is("list") /\ Type.Enum.present /\ strict_missing
        THEN typed(T_array_enum)
        ELSE IF is("list") /\ Type.Enum.present /\ prop_dict.Strict = "True"
        THEN typed(T_array_enum)
        ELSE IF is("list") /\ Type.Enum.present /\ prop_dict.Strict = "False"
        THEN typed(T_array_string_enum)
        ELSE IF vt.kind = "str" THEN typed(vt.str)
        ELSE [raised |-> "TypeError", prop_type |-> <<>>]

\* _read_each_prop: (prop_type, prop_enum_list, prop_required, prop_key) or raise
read_each_prop(prop_dict) ==
    LET Type == prop_dict.Type
        prop_required == read_prop_required(prop_dict)
        prop_key == read_prop_key(prop_dict)
    IN  IF Type.kind = "str"
        THEN Prop(Type.str, <<>>, prop_required, prop_key)
        ELSE IF Type.kind = "list"
        THEN Prop(T_string, <<>>, prop_required, prop_key)
        ELSE IF Type.kind = "dict"
        THEN LET t == read_dict_type(prop_dict)
             IN  IF t.raised # "none" THEN PropRaised(t.raised)
                 ELSE Prop(t.prop_type,
                           IF Type.Enum.present THEN Type.Enum.values ELSE <<>>,
                           prop_required, prop_key)
        ELSE IF prop_dict.Enum.present
        THEN Prop(T_enum, prop_dict.Enum.values, prop_required, prop_key)
        ELSE PropRaised("UnboundLocalError")

\* one row of the table get_prop_dict_df builds
PropRow(node, property, p) ==
    [ Property |-> property, Node |-> node, Type |-> p.prop_type,
      Example_value |-> p.prop_enum_list, Required |-> p.prop_required,
      Key |-> p.prop_key ]

\* get_prop_dict_df: [raised, table].  desc is [Nodes, PropDefinitions]: Nodes a
\* sequence of [node, Props] in file order, PropDefinitions a function from the
\* defined property names to their prop_dict.
get_prop_dict_df(desc) ==
    LET pairs == Flatten([n \in 1..Len(desc.Nodes) |->
                    [k \in 1..Len(desc.Nodes[n].Props) |->
                        <<desc.Nodes[n].node, desc.Nodes[n].Props[k]>>]])
        read(k) == IF pairs[k][2] \notin DOMAIN desc.PropDefinitions
                   THEN PropRaised("KeyError")
                   ELSE read_each_prop(desc.PropDefinitions[pairs[k][2]])
    IN  IF \E k \in 1..Len(pairs) : read(k).raised # "none"
        THEN [raised |-> read(CHOOSE k \in 1..Len(pairs) :
                                 /\ read(k).raised # "none"
                                 /\ \A j \in 1..(k - 1) : read(j).raised = "none"
                             ).raised,
              table |-> <<>>]
        ELSE [raised |-> "none",
              table |-> [k \in 1..Len(pairs) |->
                            PropRow(pairs[k][1], pairs[k][2], read(k))]]

(***************************************************************************)
(* Inputs: property definitions, model descriptions and tsv files          *)
(***************************************************************************)
NoEnum == [present |-> FALSE, values |-> <<>>]

EnumOf(values) == [present |-> TRUE, values |-> values]

NoItem == [present |-> FALSE, str |-> <<>>]

ItemOf(name) == [present |-> TRUE, str |-> <<name>>]

NoValueType == [kind |-> "absent", str |-> <<>>]

ValueTypeOf(name) == [kind |-> "str", str |-> <<name>>]

\* a value_type that is no str (a number, a nested mapping)
OtherValueType == [kind |-> "other", str |-> <<>>]

NoType ==
    [kind |-> "absent", str |-> <<>>, value_type |-> NoValueType,
     Enum |-> NoEnum, Type |-> NoItem]

StrType(name) == [NoType EXCEPT !.kind = "str", !.str = <<name>>]

ListType == [NoType EXCEPT !.kind = "list"]

DictType(value_type, enum, item) ==
    [kind |-> "dict", str |-> <<>>, value_type |-> value_type,
     Enum |-> enum, Type |-> item]

PropDict(type, enum, strict, req, key) ==
    [Type |-> type, Enum |-> enum, Strict |-> strict, Req |-> req, Key |-> key]

\* the vocabulary of every enumerated property of the inputs
Vocabulary == << <<"A">>, <<"B">> >>

\* every shape of the Type key
TypeShapes ==
    {NoType, StrType("string"), StrType("integer"), ListType}
    \cup {DictType(vt, enum, item) :
            vt \in {NoValueType, ValueTypeOf("string"), ValueTypeOf("list"),
                    ValueTypeOf("integer"), OtherValueType},
            enum \in {NoEnum, EnumOf(Vocabulary)},
            item \in {NoItem, ItemOf("string"), ItemOf("integer")}}

Flags == {"absent", "True", "False"}

\* property definitions that differ in how the type is written
TypeDicts ==
    {PropDict(type, enum, strict, "absent", "absent") :
        type \in TypeShapes, enum \in {NoEnum, EnumOf(Vocabulary)},
        strict \in Flags}

\* property definitions that differ in Req and Key
FlagDicts ==
    {PropDict(StrType("string"), NoEnum, "absent", req, key) :
        req \in {"absent", "True", "False", "Yes", "No", "Preferred"},
        key \in Flags}

\* property definitions in the dialect that gives the vocabulary as a
\* top-level Enum and no Type
TopLevelEnumDicts ==
    {PropDict(NoType, EnumOf(Vocabulary), strict, "absent", "absent") :
        strict \in Flags}

SampleNode == <<"sample">>
StudyNode == <<"study">>
P == <<"p">>
Q == <<"q">>

\* a model description of one node with the given properties
ModelDesc(node, props, definitions) ==
    [Nodes |-> <<[node |-> node, Props |-> props]>>,
     PropDefinitions |-> definitions]

TsvFile(path, header, lines) == [path |-> path, header |-> header, lines |-> lines]

\* a tsv file of node type `node` with one data column
OneColumnFile(node, column, cells) ==
    TsvFile("node.tsv", <<TypeColumn, column>>,
            [i \in 1..Len(cells) |-> <<node, cells[i]>>])

\* the cells of an enumerated column
EnumCells ==
    { <<>>, <<"A">>, <<"Z">>, <<"A", ";", "Z">>, <<"Y", ";", "Z">> }

\* the cells of a text column (a key, a required property)
TextCells == { <<>>, <<"NA">>, <<"k1">>, <<" ", "k1">> }

\* the cells of a numeric column
NumericCells == { <<>>, <<"n/a">>, <<"1">>, <<"1.5">>, <<"x">> }

\* the cells of the two linking columns of the child file
StudyLinkCells == { <<>>, <<"S1">>, <<"S9">> }
ParticipantLinkCells == { <<>>, <<"S1">>, <<"P1">> }

StudyLink == <<"study", ".", "study_id">>
ParticipantLink == <<"participant", ".", "participant_id">>
StudyId == <<"study_id">>

\* the parent (study) files: with the key column, or without it
StudyFiles ==
    { TsvFile("study.tsv", <<TypeColumn, StudyId>>,
              << <<StudyNode, <<"S1">> >> >>),
      TsvFile("study.tsv", <<TypeColumn, StudyId>>,
              << <<StudyNode, <<"N/A">> >>, <<StudyNode, <<"S1">> >>,
                 <<StudyNode, <<"S2">> >> >>),
      TsvFile("study.tsv", <<TypeColumn, <<"study_name">> >>,
              << <<StudyNode, <<"S1">> >> >>) }

\* the child (sample) files: one or two linking columns
SampleLinkFiles ==
    { TsvFile("sample.tsv", <<TypeColumn, StudyLink>>,
              [i \in 1..Len(c) |-> <<SampleNode, c[i]>>]) :
        c \in SeqsUpTo(StudyLinkCells, MaxRows) }
    \cup
    { TsvFile("sample.tsv", <<TypeColumn, StudyLink, ParticipantLink>>,
              [i \in 1..Len(c) |-> <<SampleNode, c[i][1], c[i][2]>>]) :
        c \in SeqsUpTo(StudyLinkCells \X ParticipantLinkCells, MaxRows - 1) }

\* Scenarios: [desc, files].  Each varies the inputs of some rules over every
\* combination within its bounds.
EnumScenarios ==
    { [desc |-> ModelDesc(SampleNode, <<P>>, P :> d),
       files |-> <<OneColumnFile(SampleNode, P, cells)>>] :
        d \in {PropDict(DictType(vt, EnumOf(Vocabulary), NoItem), NoEnum,
                        strict, "absent", "absent") :
                 vt \in {ValueTypeOf("string"), ValueTypeOf("list")},
                 strict \in {"True", "False"}},
        cells \in SeqsUpTo(EnumCells, MaxRows) }

TextScenarios ==
    { [desc |-> ModelDesc(SampleNode, <<P>>, P :> d),
       files |-> <<OneColumnFile(SampleNode, P, cells)>>] :
        d \in FlagDicts, cells \in SeqsUpTo(TextCells, MaxRows) }

NumericScenarios ==
    { [desc |-> ModelDesc(SampleNode, <<P>>, P :> d),
       files |-> <<OneColumnFile(SampleNode, P, cells)>>] :
        d \in {PropDict(StrType("integer"), NoEnum, "absent", "absent", "absent"),
               PropDict(StrType("number"), NoEnum, "absent", "absent", "absent")},
        cells \in SeqsUpTo(NumericCells, MaxRows) }

LinkScenarios ==
    { [desc |-> ModelDesc(SampleNode, <<>>, <<>>), files |-> <<child, parent>>] :
        child \in SampleLinkFiles, parent \in StudyFiles }

\* the normalizer's inputs: two properties of one node, no file
NormScenarios ==
    { [desc |-> ModelDesc(SampleNode, <<P, Q>>, (P :> d1) @@ (Q :> d2)),
       files |-> <<>>] :
        d1 \in TypeDicts \cup FlagDicts, d2 \in TopLevelEnumDicts }

\* the most files of a list of files that are varied as wholes
MaxFiles == 2

\* a required key property of type string
KeyDict == PropDict(StrType("string"), NoEnum, "absent", "True", "True")

\* whole files: two sample files, a file without the type column, a file with
\* two values of type, a sample file without the key column, a study file
ListFiles ==
    { TsvFile("sample.tsv", <<TypeColumn, P>>,
              << <<SampleNode, <<"k1">> >>, <<SampleNode, <<"k1">> >> >>),
      TsvFile("sample_b.tsv", <<TypeColumn, P>>,
              << <<SampleNode, <<" ", "k1">> >> >>),
      TsvFile("no_type.tsv", <<P>>, << << <<"k1">> >> >>),
      TsvFile("mixed.tsv", <<TypeColumn, P>>,
              << <<SampleNode, <<"k1">> >>, <<StudyNode, <<"k1">> >> >>),
      TsvFile("sample_q.tsv", <<TypeColumn, Q>>, << <<SampleNode, <<"k1">> >> >>),
      TsvFile("study.tsv", <<TypeColumn, StudyId>>, << <<StudyNode, <<"S1">> >> >>) }

\* lists of whole files against a schema with one required key property
FileListScenarios ==
    { [desc |-> ModelDesc(SampleNode, <<P>>, P :> KeyDict), files |-> fs] :
        fs \in SeqsUpTo(ListFiles, MaxFiles) }

\* the ways a property definition writes Req
ReqFlags == {"absent", "True", "False", "Yes", "No", "Preferred"}

\* a string property with the given Req and no Key
ReqDict(req) == PropDict(StrType("string"), NoEnum, "absent", req, "absent")

\* schemas whose two properties write Req each in its own way, against a file
\* of one row with both columns
MixedReqScenarios ==
    { [desc |-> ModelDesc(SampleNode, <<P, Q>>,
                          (P :> ReqDict(r1)) @@ (Q :> ReqDict(r2))),
       files |-> <<TsvFile("sample.tsv", <<TypeColumn, P, Q>>,
                           << <<SampleNode, c1, c2>> >>)>>] :
        r1 \in ReqFlags, r2 \in ReqFlags,
        c1 \in {<<>>, <<"k1">>}, c2 \in {<<>>, <<"k1">>} }

\* a file that has the header line and no data line
EmptyFileScenarios ==
    { [desc |-> ModelDesc(SampleNode, <<P>>, P :> d),
       files |-> <<OneColumnFile(SampleNode, P, <<>>)>>] : d \in FlagDicts }

\* a node whose Props names the same property twice, no file
RepeatedPropScenarios ==
    { [desc |-> ModelDesc(SampleNode, <<P, Q, P>>, (P :> d) @@ (Q :> ReqDict("No"))),
       files |-> <<>>] : d \in FlagDicts }

Scenarios ==
    EnumScenarios \cup TextScenarios \cup NumericScenarios \cup LinkScenarios
        \cup NormScenarios \cup FileListScenarios \cup MixedReqScenarios
        \cup EmptyFileScenarios \cup RepeatedPropScenarios

(***************************************************************************)
(* The state machine                                                       *)
(***************************************************************************)
Called(op, arg) == [op |-> op, arg |-> arg]

\* no argument of the dbGaP comparisons
NoDbgap ==
    [db_ptc_list |-> <<>>, db_sample_dict |-> <<>>,
     dbgap_sample_dict |-> <<>>, dbgap_ptc_dict |-> <<>>]

\* write_report has not started: pc is the statement the flow is at
NoFlow ==
    [pc |-> "start", skip_uniq_key |-> FALSE, commons_acronym |-> "", report |-> <<>>]

Init ==
    \E s \in Scenarios :
        /\ model_desc = s.desc
        /\ files = s.files
        /\ props_df = <<>>
        /\ norm = [called |-> FALSE, raised |-> "none", table |-> <<>>]
        /\ call = Called("none", "")
        /\ ret = Returned(<<>>)
        /\ flow = NoFlow
        /\ dbgap = NoDbgap

\* ReadDataModel builds the schema table once; a rule that takes the data model
\* runs after it.  The rules read the table as data_model.props_df
\* (submval.py:180, 304, 566, 828); props_df holds the table get_prop_dict_df
\* returns.
GetPropDictDf ==
    /\ ~norm.called
    /\ LET r == get_prop_dict_df(model_desc)
       IN  /\ norm' = [called |-> TRUE, raised |-> r.raised, table |-> r.table]
           /\ props_df' = r.table
    /\ UNCHANGED <<files, call, ret, model_desc, flow, dbgap>>

HasDataModel == norm.called /\ norm.raised = "none"

\* variant: the rule takes the files it has read off the list
ReturnConsumingFiles(op, arg, value) ==
    /\ call' = Called(op, arg)
    /\ ret' = value
    /\ files' = <<>>
    /\ UNCHANGED <<props_df, model_desc, norm, flow, dbgap>>

\* a rule returns (or raises): nothing but the result of the call is set
Return(op, arg, value) ==
    /\ call' = Called(op, arg)
    /\ ret' = value
    /\ UNCHANGED <<props_df, files, model_desc, norm, flow, dbgap>>

ValidateRequiredProperties ==
    /\ HasDataModel
    /\ Return("validate_required_properties", "",
              validate_required_properties(props_df, files))

ValidateWhitespaceIssue ==
    Return("validate_whitespace_issue", "", validate_whitespace_issue(files))

CommonsAcronyms == {"ccdi", "cds", "gdc"}

ValidateTermsValueSets ==
    /\ HasDataModel
    /\ \E commons_acronym \in CommonsAcronyms :
         \E value \in validate_terms_value_sets(props_df, files, commons_acronym) :
            Return("validate_terms_value_sets", commons_acronym, value)

ValidateNumericInteger ==
    /\ HasDataModel
    /\ Return("validate_numeric_integer", "",
              validate_numeric_integer(props_df, files))

ValidateCrossLinks ==
    Return("validate_cross_links", "", validate_cross_links(files))

ValidateUniqueKeyId ==
    /\ HasDataModel
    /\ Return("validate_unique_key_id", "",
              validate_unique_key_id(props_df, files))

(***************************************************************************)
(* The write_report flow (workflow/validate_submission.py)                 *)
(***************************************************************************)
\* one outf.write of the flow: the section and the blocks it holds
Section(name, text) == [section |-> name, text |-> text]

\* validate_format is called by the flow and is not part of SubmVal as given;
\* every file is handed on to the rules
validate_format(filepath_list) ==
    [raised |-> "none", text |-> <<>>, passed_files |-> filepath_list]

\* variant: the terms section is written after the numeric one
RuleOrderNumericFirst ==
    << "validate_required_properties", "validate_whitespace_issue",
       "validate_numeric_integer", "validate_terms_value_sets",
       "validate_cross_links", "validate_unique_key_id" >>

\* the rule tasks of write_report in the order of its statements
RuleOrder ==
    << "validate_required_properties", "validate_whitespace_issue",
       "validate_terms_value_sets", "validate_numeric_integer",
       "validate_cross_links", "validate_unique_key_id" >>

\* the values the task of a rule may return
RuleTask(op, filepath_list, commons_acronym) ==
    CASE op = "validate_required_properties" ->
            {validate_required_properties(props_df, filepath_list)}
      [] op = "validate_whitespace_issue" ->
            {validate_whitespace_issue(filepath_list)}
      [] op = "validate_terms_value_sets" ->
            validate_terms_value_sets(props_df, filepath_list, commons_acronym)
      [] op = "validate_numeric_integer" ->
            {validate_numeric_integer(props_df, filepath_list)}
      [] op = "validate_cross_links" ->
            {validate_cross_links(filepath_list)}
      [] op = "validate_unique_key_id" ->
            {validate_unique_key_id(props_df, filepath_list)}

\* the commons the flow is run for: one with a delimiter, one without
FlowAcronyms == {"ccdi", "ctdc"}

\* the file lists the flow is run on
FlowInputs == SeqsUpTo(ListFiles, MaxFiles)

\* the statement after the task of RuleOrder[k]
AfterRule(k) == IF k = Len(RuleOrder) THEN "done" ELSE RuleOrder[k + 1]

\* report_header is written first
WriteReportHeader ==
    /\ flow.pc = "start"
    /\ HasDataModel
    /\ files \in FlowInputs
    /\ \E skip_uniq_key \in BOOLEAN, commons_acronym \in FlowAcronyms :
          flow' = [pc |-> "validate_format", skip_uniq_key |-> skip_uniq_key,
                   commons_acronym |-> commons_acronym,
                   report |-> <<Section("report_header", <<>>)>>]
    /\ UNCHANGED <<props_df, files, call, ret, model_desc, norm, dbgap>>

\* val_format and the write of its section
WriteFormatValidation ==
    /\ flow.pc = "validate_format"
    /\ flow' = [flow EXCEPT
                  !.pc = RuleOrder[1],
                  !.report = Append(@, Section("validate_format",
                                               validate_format(files).text))]
    /\ UNCHANGED <<props_df, files, call, ret, model_desc, norm, dbgap>>

\* the task of one rule and the write of its section; an exception of the task
\* ends the flow; the unique-key task is passed over when skip_uniq_key is set
WriteRuleSection ==
    /\ \E k \in 1..Len(RuleOrder) :
          /\ flow.pc = RuleOrder[k]
          /\ IF RuleOrder[k] = "validate_unique_key_id" /\ flow.skip_uniq_key
             THEN flow' = [flow EXCEPT !.pc = AfterRule(k)]
             ELSE \E value \in RuleTask(RuleOrder[k],
                                        validate_format(files).passed_files,
                                        flow.commons_acronym) :
                     IF value.raised # "none"
                     THEN flow' = [flow EXCEPT !.pc = "raised"]
                     ELSE flow' = [flow EXCEPT
                                     !.pc = AfterRule(k),
                                     !.report = Append(@, Section(RuleOrder[k],
                                                                  value.text))]
    /\ UNCHANGED <<props_df, files, call, ret, model_desc, norm, dbgap>>

Next ==
    \/ WriteReportHeader
    \/ WriteFormatValidation
    \/ WriteRuleSection
    \/ GetPropDictDf
    \/ ValidateRequiredProperties
    \/ ValidateWhitespaceIssue
    \/ ValidateTermsValueSets
    \/ ValidateNumericInteger
    \/ ValidateCrossLinks
    \/ ValidateUniqueKeyId

Spec == Init /\ [][Next]_vars

(***************************************************************************)
(* The dbGaP comparisons (workflow/crdcdh/dbgap_validation.py)             *)
(*                                                                         *)
(* A dict is the sequence of its <<key, value>> items in insertion order,  *)
(* the keys distinct.  A message is the sequence of the parts it holds:    *)
(* [level, count, text, rows].                                             *)
(***************************************************************************)
MaxSamples == 2
MaxPtc == 2

dict_keys(d) == [i \in 1..Len(d) |-> d[i][1]]

dict_get(d, k) == d[CHOOSE i \in 1..Len(d) : d[i][1] = k][2]

Part(level, count, text, rows) ==
    [level |-> level, count |-> count, text |-> text, rows |-> rows]

\* variant: without overlap the participants count as passed
find_db_ptc_consent_zero_lenient(db_ptc_list, dbgap_ptc_dict) ==
    LET p_consent_zero ==
            SelectSeq(db_ptc_list,
                LAMBDA i : /\ Contains(dict_keys(dbgap_ptc_dict), i)
                           /\ dict_get(dbgap_ptc_dict, i) = 0)
    IN  IF Len(p_consent_zero) > 0
        THEN <<Part("ERROR", Len(p_consent_zero),
                    "participant(s) in DB with consent code of 0 in dbGaP",
                    p_consent_zero)>>
        ELSE <<Part("INFO", 0, "All participants in DB have consent code non-0",
                    <<>>)>>

find_db_ptc_consent_zero(db_ptc_list, dbgap_ptc_dict) ==
    LET p_in_db_in_dbGaP ==
            SelectSeq(db_ptc_list, LAMBDA i : Contains(dict_keys(dbgap_ptc_dict), i))
        p_consent_zero ==
            SelectSeq(p_in_db_in_dbGaP, LAMBDA i : dict_get(dbgap_ptc_dict, i) = 0)
    IN  IF Len(p_in_db_in_dbGaP) > 0
        THEN IF Len(p_consent_zero) > 0
             THEN <<Part("ERROR", Len(p_consent_zero),
                         "participant(s) in DB with consent code of 0 in dbGaP",
                         p_consent_zero)>>
             ELSE <<Part("INFO", 0, "All participants in DB have consent code non-0",
                         <<>>)>>
        ELSE <<Part("ERROR", 0,
                    "No overlap of participants found between DB and dbGaP", <<>>)>>

\* message is assigned ("message = ...") in the WARNING branch and again in the
\* ERROR branch
find_sample_not_in_dbgap(db_sample_dict, dbgap_sample_dict, dbgap_ptc_dict) ==
    LET s_in_db_not_in_dbGaP ==
            SelectSeq(dict_keys(db_sample_dict),
                LAMBDA i : ~Contains(dict_keys(dbgap_sample_dict), i))
        parent_in(key) ==
            Contains(dict_keys(dbgap_ptc_dict), dict_get(db_sample_dict, key))
        s_parent_in_dbgap == SelectSeq(s_in_db_not_in_dbGaP, parent_in)
        s_parent_not_in_dbgap ==
            SelectSeq(s_in_db_not_in_dbGaP, LAMBDA key : ~parent_in(key))
        after_warning ==
            IF Len(s_parent_in_dbgap) > 0
            THEN <<Part("WARNING", Len(s_parent_in_dbgap),
                        "Samples found in DB but not in dbGaP. However, they belong to participants registered in dbGaP.",
                        s_parent_in_dbgap)>>
            ELSE <<>>
        after_error ==
            IF Len(s_parent_not_in_dbgap) > 0
            THEN <<Part("ERROR", Len(s_parent_not_in_dbgap),
                        "Samples found in DB but not in dbGaP. They belong to participants NOT registered in dbGaP.",
                        s_parent_not_in_dbgap)>>
            ELSE after_warning
    IN  IF Len(s_in_db_not_in_dbGaP) > 0
        THEN after_error
        ELSE <<Part("INFO", 0, "Samples in DB passed validation", <<>>)>>

find_ptc_not_in_dbGaP(db_ptc_list, dbgap_ptc_dict) ==
    LET p_in_db_not_in_dbGaP ==
            SelectSeq(db_ptc_list, LAMBDA i : ~Contains(dict_keys(dbgap_ptc_dict), i))
    IN  IF Len(p_in_db_not_in_dbGaP) > 0
        THEN <<Part("ERROR", Len(p_in_db_not_in_dbGaP),
                    "participant(s) in DB but not in dbGaP", p_in_db_not_in_dbGaP)>>
        ELSE <<Part("INFO", 0, "All participants in DB found in dbGaP", <<>>)>>

find_ptc_not_in_db(db_ptc_list, dbgap_ptc_dict) ==
    LET p_in_dbGaP_not_in_db ==
            SelectSeq(dict_keys(dbgap_ptc_dict),
                LAMBDA i : /\ ~Contains(db_ptc_list, i)
                           /\ dict_get(dbgap_ptc_dict, i) # 0)
    IN  IF Len(p_in_dbGaP_not_in_db) > 0
        THEN <<Part("WARNING", Len(p_in_dbGaP_not_in_db),
                    "participant(s) in dbGaP (consent non-0) but not in DB",
                    p_in_dbGaP_not_in_db)>>
        ELSE <<Part("INFO", 0,
                    "ALL participants in dbGaP (consent non-0) were found in DB",
                    <<>>)>>

find_sample_not_in_db(db_sample_dict, dbgap_sample_dict) ==
    LET s_in_dbGaP_not_in_db ==
            SelectSeq(dict_keys(dbgap_sample_dict),
                LAMBDA i : ~Contains(dict_keys(db_sample_dict), i))
    IN  IF Len(s_in_dbGaP_not_in_db) > 0
        THEN <<Part("WARNING", Len(s_in_dbGaP_not_in_db),
                    "Samples found in dbGaP but not found in DB",
                    s_in_dbGaP_not_in_db)>>
        ELSE <<Part("INFO", 0, "Samples in dbGaP were all found in DB", <<>>)>>

sample_ptc_check(db_sample_dict, dbgap_sample_dict) ==
    LET s_in_dbgap_in_db ==
            SelectSeq(dict_keys(db_sample_dict),
                LAMBDA i : Contains(dict_keys(dbgap_sample_dict), i))
        parent_mismatch_list ==
            SelectSeq(s_in_dbgap_in_db,
                LAMBDA s : dict_get(db_sample_dict, s) # dict_get(dbgap_sample_dict, s))
    IN  IF Len(s_in_dbgap_in_db) > 0
        THEN IF Len(parent_mismatch_list) > 0
             THEN <<Part("ERROR", Len(parent_mismatch_list),
                         "Samples found associated with different participant ids between DB and dbGaP",
                         parent_mismatch_list)>>
             ELSE <<Part("INFO", 0,
                         "Samples' participant ids match between DB and dbGaP", <<>>)>>
        ELSE <<Part("ERROR", 0, "No overlap of samples found between DB and dbGaP",
                    <<>>)>>

\* one "summary_str += ..." of metadata_validation_str: the check and its message
Summary(check, message) == [check |-> check, message |-> message]

\* the six checks in the order of the statements, each on the arguments the
\* statement passes
metadata_validation_str(db_participant_list, db_sample_dict, dbgap_participant_dict, dbgap_sample_dict) ==
    << Summary("find_ptc_not_in_dbGaP",
               find_ptc_not_in_dbGaP(db_participant_list, dbgap_participant_dict)),
       Summary("find_ptc_not_in_db",
               find_ptc_not_in_db(db_participant_list, dbgap_participant_dict)),
       Summary("find_db_ptc_consent_zero",
               find_db_ptc_consent_zero(db_participant_list, dbgap_participant_dict)),
       Summary("find_sample_not_in_dbgap",
               find_sample_not_in_dbgap(db_sample_dict, db_sample_dict,
                                        dbgap_participant_dict)),
       Summary("find_sample_not_in_db",
               find_sample_not_in_db(dbgap_sample_dict, dbgap_sample_dict)),
       Summary("sample_ptc_check",
               sample_ptc_check(db_sample_dict, dbgap_sample_dict)) >>

\* the ids of the inputs
SampleIds == <<"sample_1", "sample_2", "sample_3">>
PtcIds == <<"ptc_1", "ptc_2", "ptc_3">>
DbgapPtcIds == <<"ptc_1", "ptc_2">>
ConsentCodes == {0, 1}

HasDistinctKeys(d) == \A i, j \in 1..Len(d) : d[i][1] = d[j][1] => i = j

\* the dicts of at most n items with keys from K and values from V
DictsUpTo(K, V, n) ==
    {<<>>} \cup {d \in SeqsUpTo(K \X V, n) : HasDistinctKeys(d)}

\* the dict that gives the ids of S, in the order of ids, the value of value_of
DictOver(ids, S, value_of) ==
    LET kept == SelectSeq(ids, LAMBDA k : k \in S)
    IN  [i \in 1..Len(kept) |-> <<kept[i], value_of[kept[i]]>>]

DbgapPtcDicts ==
    UNION {{DictOver(DbgapPtcIds, S, c) : c \in [S -> ConsentCodes]} :
              S \in SUBSET Range(DbgapPtcIds)}

DbgapSampleDicts ==
    {DictOver(SampleIds, S, [k \in S |-> "ptc_1"]) : S \in SUBSET Range(SampleIds)}

SampleInputs ==
    { [NoDbgap EXCEPT !.db_sample_dict = d, !.dbgap_sample_dict = g,
                      !.dbgap_ptc_dict = p] :
        d \in DictsUpTo(Range(SampleIds), Range(PtcIds), MaxSamples),
        g \in DbgapSampleDicts, p \in DbgapPtcDicts }

PtcInputs ==
    { [NoDbgap EXCEPT !.db_ptc_list = l, !.dbgap_ptc_dict = p] :
        l \in {<<>>} \cup SeqsUpTo(Range(PtcIds), MaxPtc), p \in DbgapPtcDicts }

\* each function is called on its own arguments, as the tests call it
InitDbgap ==
    /\ dbgap \in SampleInputs \cup PtcInputs
    /\ model_desc = ModelDesc(SampleNode, <<>>, <<>>)
    /\ files = <<>>
    /\ props_df = <<>>
    /\ norm = [called |-> FALSE, raised |-> "none", table |-> <<>>]
    /\ call = Called("none", "")
    /\ ret = Returned(<<>>)
    /\ flow = NoFlow

FindDbPtcConsentZero ==
    /\ call' = Called("find_db_ptc_consent_zero", "")
    /\ ret' = Returned(find_db_ptc_consent_zero(dbgap.db_ptc_list,
                                                dbgap.dbgap_ptc_dict))
    /\ UNCHANGED <<props_df, files, model_desc, norm, flow, dbgap>>

FindSampleNotInDbgap ==
    /\ call' = Called("find_sample_not_in_dbgap", "")
    /\ ret' = Returned(find_sample_not_in_dbgap(dbgap.db_sample_dict,
                                                dbgap.dbgap_sample_dict,
                                                dbgap.dbgap_ptc_dict))
    /\ UNCHANGED <<props_df, files, model_desc, norm, flow, dbgap>>

MetadataValidationStr ==
    /\ call' = Called("metadata_validation_str", "")
    /\ ret' = Returned(metadata_validation_str(dbgap.db_ptc_list,
                                               dbgap.db_sample_dict,
                                               dbgap.dbgap_ptc_dict,
                                               dbgap.dbgap_sample_dict))
    /\ UNCHANGED <<props_df, files, model_desc, norm, flow, dbgap>>

(***************************************************************************)
(* SstrHaul (src/commons/dbgap_sstr.py) and the flow that uses it.  A      *)
(* Python value that is a str or an int is [type, repr]: the str "0" and   *)
(* the int 0 have the same repr and are not equal.                         *)
(***************************************************************************)
PyStr(repr) == [type |-> "str", repr |-> repr]

PyInt(repr) == [type |-> "int", repr |-> repr]

None == [type |-> "NoneType", repr |-> "None"]

\* the decimal numerals int() is given in the model
Numerals == ("0" :> 0) @@ ("1" :> 1) @@ ("2" :> 2) @@ ("3" :> 3)

\* int(v): [raised, value]
py_int(v) ==
    IF v.repr \in DOMAIN Numerals
    THEN [raised |-> "none", value |-> Numerals[v.repr]]
    ELSE [raised |-> "ValueError", value |-> 0]

\* re.findall(r"^phs(\d{6})$", phs_accession) on the accessions of the model
MatchesPhs(phs_accession) == phs_accession \in {"phs000123", "phs002529"}

\* _validate_phs and _validate_version, latest the version the dbGaP API gives
SstrHaulInit(phs_accession, version_str, latest) ==
    IF ~MatchesPhs(phs_accession) THEN "ValueError"
    ELSE IF py_int(version_str).raised # "none" THEN "ValueError"
    ELSE IF py_int(version_str).value > latest THEN "ValueError"
    ELSE "none"

\* _study_version_phrase: "self.version_str == 0" compares with the int 0
study_version_phrase(phs_accession, version_str) ==
    IF version_str = PyInt("0")
    THEN <<"/study/", phs_accession, "/subjects">>
    ELSE <<"/study/", phs_accession, ".v", version_str.repr, "/subjects">>

\* the "dbGaP version in DB" line of dbgap_validation_md
report_study_version(study_version) ==
    IF py_int(study_version).value = 0
    THEN "Not Found [WARNING: Validation was performed using LATEST version found dbGaP API]"
    ELSE study_version.repr

\* what the DB holds for the submission: accession and study version
DbAccessions == {"phs000123", "failaccession"}
DbStudyVersions == {None, PyStr("1"), PyStr("2")}

\* the latest version of the study the dbGaP API reports
LatestVersions == {1}

\* validation_against_dbgap: the request the dicts of dbGaP are fetched with
\* and the artifact that is created, or the exception of SstrHaul
ValidationAgainstDbgap ==
    /\ \E study_accession \in DbAccessions, db_version \in DbStudyVersions,
          latest \in LatestVersions :
          LET study_version ==
                  IF db_version = None THEN PyStr("0") ELSE db_version
          IN  /\ call' = Called("validation_against_dbgap",
                                [study_accession |-> study_accession,
                                 study_version |-> db_version])
              /\ ret' =
                   IF SstrHaulInit(study_accession, study_version, latest) # "none"
                   THEN Raised(SstrHaulInit(study_accession, study_version, latest))
                   ELSE Returned(<<
                          [request |-> study_version_phrase(study_accession,
                                                            study_version),
                           study_version |-> report_study_version(study_version),
                           validationstr |->
                              metadata_validation_str(dbgap.db_ptc_list,
                                                      dbgap.db_sample_dict,
                                                      dbgap.dbgap_ptc_dict,
                                                      dbgap.dbgap_sample_dict)] >>)
    /\ UNCHANGED <<props_df, files, model_desc, norm, flow, dbgap>>

NextDbgap ==
    \/ FindDbPtcConsentZero
    \/ FindSampleNotInDbgap
    \/ MetadataValidationStr
    \/ ValidationAgainstDbgap

SpecDbgap == InitDbgap /\ [][NextDbgap]_vars

(***************************************************************************)
(* Vocabulary of the properties                                            *)
(***************************************************************************)
\* the operation op returned its section (it did not raise)
ReturnedFrom(op) == call.op = op /\ ret.raised = "none"

FileNode(f) == get_type(files[f]).value

\* the loaded cells of column j of file f, by position
LoadedCells(f, j) ==
    [i \in 1..Len(files[f].lines) |-> read_tsv(files[f]).data[i][j]]

\* the values of column j of file f (the cells that are not absent)
ValuesOf(f, j) ==
    {LoadedCells(f, j)[i] : i \in {k \in 1..Len(files[f].lines) :
                                      LoadedCells(f, j)[k] # NaN}}

\* the line numbers (zero-based row index + 2) of the given positions 1..n
LineNumbers(positions) == {(i - 1) + 2 : i \in positions}

\* the findings the returned section holds for a property of file f
FindingsOf(f, property) ==
    {ret.text[f].table[t] : t \in {k \in 1..Len(ret.text[f].table) :
                                      ret.text[f].table[k].property = property}}

\* seq lists exactly the elements of S, each once
Lists(seq, S) == Range(seq) = S /\ Len(seq) = Cardinality(S)

Ascending(seq) == \A i, j \in 1..Len(seq) : i < j => seq[i] < seq[j]

\* the schema rows of a property of the node of file f
SchemaRows(f, j) ==
    {r \in Range(props_df) :
        r.Node = FileNode(f) /\ r.Property = files[f].header[j]}

Columns(f) == 1..Len(files[f].header)

SoftEnumTypes == {T_string_enum, T_array_string_enum}
StrictEnumTypes == {T_enum, T_array_enum}
ArrayEnumTypes == {T_array_enum, T_array_string_enum}

\* the tokens of an enum column: its values, split on the delimiter for an array
TokensOf(f, j, type, delimiter) ==
    IF type \in ArrayEnumTypes
    THEN UNION {Range(split(v, delimiter)) : v \in ValuesOf(f, j)}
    ELSE ValuesOf(f, j)

(***************************************************************************)
(* C1.  Required-properties rule: for every column of a file that is in    *)
(* the required-property list the rule gets for the file's node type,      *)
(* there is one finding; its row numbers are exactly {i + 2 : the cell at  *)
(* zero-based row i has no value}, in increasing order; the check is ERROR *)
(* when that set is non-empty and PASS when it is empty.                   *)
(***************************************************************************)
C1_RequiredRowNumbers ==
    ReturnedFrom("validate_required_properties") =>
        \A f \in 1..Len(files) : \A j \in Columns(f) :
            LET property == files[f].header[j]
                missing == LineNumbers({i \in 1..Len(files[f].lines) :
                                           LoadedCells(f, j)[i] = NaN})
            IN  Contains(required_prop_list(props_df, FileNode(f)), property) =>
                    /\ Cardinality(FindingsOf(f, property)) = 1
                    /\ \A fd \in FindingsOf(f, property) :
                          /\ Lists(fd.error_row, missing)
                          /\ Ascending(fd.error_row)
                          /\ fd.check = IF missing = {} THEN PASS ELSE ERROR

\* a required column of three rows whose first and third cells are absent is
\* reported as ERROR on rows 2,4
C1_Witness ==
    /\ ReturnedFrom("validate_required_properties")
    /\ \E f \in 1..Len(files) :
          /\ Len(files[f].lines) = 3
          /\ \E fd \in FindingsOf(f, P) : fd.check = ERROR /\ fd.error_row = <<2, 4>>

(***************************************************************************)
(* C2.  Enumerated-values rule: for a non-empty column of a property whose *)
(* type is an enum, the finding lists the invalid values (for an array     *)
(* type, the invalid tokens) and is WARNING "free strings allowed" for a   *)
(* soft enum, ERROR "unrecognized value" for a strict enum, when there is  *)
(* an invalid value; it is PASS when there is none.  A soft enum never     *)
(* yields ERROR.                                                           *)
(***************************************************************************)
C2_EnumSeverity ==
    ReturnedFrom("validate_terms_value_sets") =>
        \A f \in 1..Len(files) : \A j \in Columns(f) : \A r \in SchemaRows(f, j) :
            (r.Type \in SoftEnumTypes \cup StrictEnumTypes /\ ValuesOf(f, j) # {}) =>
                LET invalid == TokensOf(f, j, r.Type, CommonsFeat[call.arg])
                                   \ Range(r.Example_value)
                IN  /\ FindingsOf(f, r.Property) # {}
                    /\ \A fd \in FindingsOf(f, r.Property) :
                          /\ Range(fd.error_value) = invalid
                          /\ fd.check =
                                IF invalid = {} THEN PASS
                                ELSE IF r.Type \in SoftEnumTypes THEN WARNING_FREE
                                ELSE ERROR_UNRECOGNIZED
                          /\ r.Type \in SoftEnumTypes => fd.check[1] # "ERROR"

\* values A, Z against [A, B]: a string;enum property warns and lists Z
C2_Witness ==
    /\ ReturnedFrom("validate_terms_value_sets")
    /\ \E f \in 1..Len(files) : \E j \in Columns(f) : \E r \in SchemaRows(f, j) :
          /\ r.Type = T_string_enum
          /\ ValuesOf(f, j) = {<<"A">>, <<"Z">>}
          /\ \E fd \in FindingsOf(f, r.Property) :
                fd.check = WARNING_FREE /\ fd.error_value = << <<"Z">> >>

(***************************************************************************)
(* C3.  Array enums: every cell is split on the commons delimiter when it  *)
(* holds one (else it is one token); the invalid list holds exactly the    *)
(* distinct tokens that are not allowed, each once; an allowed token is    *)
(* never listed.                                                           *)
(***************************************************************************)
C3_ArrayInvalidTokens ==
    ReturnedFrom("validate_terms_value_sets") =>
        \A f \in 1..Len(files) : \A j \in Columns(f) : \A r \in SchemaRows(f, j) :
            r.Type \in ArrayEnumTypes =>
                \A fd \in FindingsOf(f, r.Property) :
                    /\ Lists(fd.error_value,
                             TokensOf(f, j, r.Type, CommonsFeat[call.arg])
                                 \ Range(r.Example_value))
                    /\ \A k \in 1..Len(fd.error_value) :
                          ~Contains(r.Example_value, fd.error_value[k])

\* cells "A;Z" and "Z" with delimiter ";" against [A, B]: exactly Z, once
C3_Witness ==
    /\ ReturnedFrom("validate_terms_value_sets")
    /\ CommonsFeat[call.arg] = ";"
    /\ \E f \in 1..Len(files) : \E j \in Columns(f) : \E r \in SchemaRows(f, j) :
          /\ r.Type = T_array_enum
          /\ ValuesOf(f, j) = {<<"A", ";", "Z">>, <<"Z">>}
          /\ \E fd \in FindingsOf(f, r.Property) : fd.error_value = << <<"Z">> >>

(***************************************************************************)
(* C4.  Cross-links rule: for a linking column <parent-node>.<parent-key>  *)
(* with at least one value whose parent node has a file (with the column   *)
(* <parent-key>) in the input, the finding is ERROR listing exactly the    *)
(* distinct link values that are not among the values of <parent-key> in   *)
(* the parent file, PASS when there is none; a linking column without      *)
(* values yields the empty finding.                                        *)
(***************************************************************************)
IsLinkHeader(h) == Len(h) = 3 /\ h[2] = "." /\ h[1] # " " /\ h[3] # " "

C4_CrossLinkValues ==
    ReturnedFrom("validate_cross_links") =>
        \A f \in 1..Len(files) : \A j \in Columns(f) :
            LET h == files[f].header[j]
            IN  IsLinkHeader(h) =>
                /\ FindingsOf(f, h) # {}
                /\ ValuesOf(f, j) = {} =>
                      \A fd \in FindingsOf(f, h) : fd.check = EMPTY
                /\ ValuesOf(f, j) # {} =>
                      \A g \in 1..Len(files) : \A k \in Columns(g) :
                          (FileNode(g) = <<h[1]>> /\ files[g].header[k] = <<h[3]>>) =>
                              LET bad == ValuesOf(f, j) \ ValuesOf(g, k)
                              IN  \A fd \in FindingsOf(f, h) :
                                     /\ Lists(fd.error_value, bad)
                                     /\ fd.check = IF bad = {} THEN PASS ELSE ERROR

\* link values S1, S9 against a parent that holds S1: ERROR listing S9
C4_Witness ==
    /\ ReturnedFrom("validate_cross_links")
    /\ \E f \in 1..Len(files) : \E j \in Columns(f) :
          /\ files[f].header[j] = StudyLink
          /\ ValuesOf(f, j) = {<<"S1">>, <<"S9">>}
          /\ \E fd \in FindingsOf(f, StudyLink) :
                fd.check = ERROR /\ fd.error_value = << <<"S9">> >>

(***************************************************************************)
(* C5.  Unique-key rule: for every key property of the file's node type    *)
(* whose column has a value, the finding is ERROR listing exactly the      *)
(* distinct values that occur more than once among the non-empty cells     *)
(* when the number of non-empty cells differs from the number of distinct  *)
(* values, and PASS otherwise.                                             *)
(***************************************************************************)
C5_UniqueKey ==
    ReturnedFrom("validate_unique_key_id") =>
        \A f \in 1..Len(files) : \A j \in Columns(f) : \A r \in SchemaRows(f, j) :
            (r.Key = "True" /\ ValuesOf(f, j) # {}) =>
                LET filled == {i \in 1..Len(files[f].lines) :
                                  LoadedCells(f, j)[i] # NaN}
                    repeated == {v \in ValuesOf(f, j) :
                                    \E a, b \in filled :
                                        /\ a # b
                                        /\ LoadedCells(f, j)[a] = v
                                        /\ LoadedCells(f, j)[b] = v}
                IN  /\ FindingsOf(f, r.Property) # {}
                    /\ \A fd \in FindingsOf(f, r.Property) :
                          IF Cardinality(filled) # Cardinality(ValuesOf(f, j))
                          THEN fd.check = ERROR /\ Lists(fd.error_value, repeated)
                          ELSE fd.check = PASS /\ fd.error_value = <<>>

\* key cells k1, k1, " k1": ERROR listing k1
C5_Witness ==
    /\ ReturnedFrom("validate_unique_key_id")
    /\ \E f \in 1..Len(files) :
          /\ files[f].lines = << <<SampleNode, <<"k1">> >>, <<SampleNode, <<"k1">> >>,
                                 <<SampleNode, <<" ", "k1">> >> >>
          /\ \E fd \in FindingsOf(f, P) :
                fd.check = ERROR /\ fd.error_value = << <<"k1">> >>

(***************************************************************************)
(* C6.  A column all of whose cells are absent (blank, "NA", "na", "N/A",  *)
(* "n/a") gets no ERROR and no WARNING from the numeric, the               *)
(* enumerated-values and the unique-key rule (its finding is the empty     *)
(* one), and no finding at all from the whitespace rule.                   *)
(***************************************************************************)
AbsentMarkers == { <<>>, <<"NA">>, <<"na">>, <<"N/A">>, <<"n/a">> }

AllAbsent(f, j) ==
    \A i \in 1..Len(files[f].lines) : files[f].lines[i][j] \in AbsentMarkers

C6_AbsentColumn ==
    ret.raised = "none" =>
        \A f \in 1..Len(files) : \A j \in Columns(f) :
            AllAbsent(f, j) =>
                /\ call.op \in {"validate_numeric_integer", "validate_terms_value_sets",
                                "validate_unique_key_id"} =>
                       \A fd \in FindingsOf(f, files[f].header[j]) : fd.check = EMPTY
                /\ call.op = "validate_whitespace_issue" =>
                       FindingsOf(f, files[f].header[j]) = {}

\* a numeric column holding only "n/a" and blank cells gets the empty finding
C6_Witness ==
    /\ ReturnedFrom("validate_numeric_integer")
    /\ \E f \in 1..Len(files) : \E j \in Columns(f) :
          /\ AllAbsent(f, j)
          /\ \E i \in 1..Len(files[f].lines) : files[f].lines[i][j] = <<"n/a">>
          /\ \E fd \in FindingsOf(f, files[f].header[j]) : fd.check = EMPTY

(***************************************************************************)
(* C7.  Determinism: a rule run again on the same schema and the same      *)
(* files returns the same report text, the order of the listed values      *)
(* included.                                                               *)
(***************************************************************************)
C7_Determinism == [][call' = call => ret' = ret]_vars

(***************************************************************************)
(* Vocabulary of the properties of the normalizer                          *)
(***************************************************************************)
Normalized == norm.called /\ norm.raised = "none"

\* the definition a row of the table was read from
DefOf(row) == model_desc.PropDefinitions[row.Property]

\* a structured type (a mapping) that carries an enumerated vocabulary
StructuredEnum(d) == d.Type.kind = "dict" /\ d.Type.Enum.present

IsList(d) == d.Type.value_type = ValueTypeOf("list")

\* d gives its vocabulary as a top-level Enum and no Type
TopLevelEnum(d) == d.Type.kind = "absent" /\ d.Enum.present

\* d gives its vocabulary in a Type structure with value_type (single-valued)
NestedEnum(d) == StructuredEnum(d) /\ d.Type.value_type = ValueTypeOf("string")

\* the same logical property in the two dialects: same vocabulary, same
\* strictness, same (single) cardinality
SameLogicalProperty(a, b) ==
    /\ TopLevelEnum(a) /\ NestedEnum(b)
    /\ a.Enum.values = b.Type.Enum.values
    /\ a.Strict = b.Strict
    /\ a.Strict \in {"True", "False"}

(***************************************************************************)
(* C8.  Dialect independence: a property written with a top-level Enum and *)
(* no Type and a property written as a Type structure with value_type and  *)
(* a nested Enum, of the same vocabulary, strictness and cardinality, get  *)
(* the same type string.                                                   *)
(***************************************************************************)
C8_DialectIndependence ==
    Normalized =>
        \A a, b \in Range(norm.table) :
            SameLogicalProperty(DefOf(a), DefOf(b)) => a.Type = b.Type

(***************************************************************************)
(* C9.  Type resolution by strictness, as claimed: every structured type   *)
(* that carries an enumerated vocabulary resolves to enum (strict true) or *)
(* string;enum (strict false); a list type to array[enum] or               *)
(* array[string;enum].                                                     *)
(***************************************************************************)
ByStrictness(d) ==
    IF IsList(d)
    THEN IF d.Strict = "True" THEN T_array_enum ELSE T_array_string_enum
    ELSE IF d.Strict = "True" THEN T_enum ELSE T_string_enum

C9_EveryStructuredEnum ==
    Normalized =>
        \A row \in Range(norm.table) :
            (StructuredEnum(DefOf(row)) /\ DefOf(row).Strict \in {"True", "False"}) =>
                row.Type = ByStrictness(DefOf(row))

(***************************************************************************)
(* C9, amended.  A structured type that carries an enumerated vocabulary   *)
(* and whose value_type is "string" resolves to enum when the strict flag  *)
(* is true and to string;enum when it is false; one whose value_type is    *)
(* "list" and that has no nested Type key resolves to array[enum] when the *)
(* flag is true and to array[string;enum] when it is false.                *)
(***************************************************************************)
C9_StringOrListEnum ==
    Normalized =>
        \A row \in Range(norm.table) :
            LET d == DefOf(row)
            IN  (/\ StructuredEnum(d)
                 /\ d.Strict \in {"True", "False"}
                 /\ \/ d.Type.value_type = ValueTypeOf("string")
                    \/ IsList(d) /\ ~d.Type.Type.present) =>
                    row.Type = ByStrictness(d)

\* a list type with a vocabulary and strict false is array[string;enum]
C9_Witness ==
    /\ Normalized
    /\ \E row \in Range(norm.table) :
          /\ StructuredEnum(DefOf(row)) /\ IsList(DefOf(row))
          /\ ~DefOf(row).Type.Type.present
          /\ DefOf(row).Strict = "False"
          /\ row.Type = T_array_string_enum

(***************************************************************************)
(* C10.  A structured type whose value_type is list and whose item kind is *)
(* not enumerated resolves to array[<item-type>], <item-type> being the    *)
(* declared item type.                                                     *)
(***************************************************************************)
C10_ArrayOfItemType ==
    Normalized =>
        \A row \in Range(norm.table) :
            LET d == DefOf(row)
            IN  (/\ d.Type.kind = "dict" /\ IsList(d)
                 /\ ~d.Type.Enum.present /\ d.Type.Type.present) =>
                    row.Type = <<"array", "[">> \o d.Type.Type.str \o <<"]">>

(***************************************************************************)
(* C11.  Normalization is total up to one error: get_prop_dict_df either   *)
(* gives every property a type that is one of string, integer, number,     *)
(* datetime, enum, string;enum or array[T], or it fails with the TypeError *)
(* raised for a type that cannot be categorized; it fails in no other way. *)
(***************************************************************************)
ScalarKinds ==
    { T_string, <<"integer">>, <<"number">>, <<"datetime">>, T_enum, T_string_enum }

IsArrayKind(t) ==
    Len(t) >= 4 /\ t[1] = "array" /\ t[2] = "[" /\ t[Len(t)] = "]"

C11_NormalizationTotal ==
    norm.called =>
        /\ norm.raised \in {"none", "TypeError"}
        /\ \A row \in Range(norm.table) :
              row.Type \in ScalarKinds \/ IsArrayKind(row.Type)

(***************************************************************************)
(* C12.  Numeric/integer rule: for every column that is an integer or      *)
(* number property of the file's node type and has a value, the finding    *)
(* lists exactly the row numbers {i + 2 : the cell at zero-based row i has *)
(* a value that does not parse as an int (integer) or a float (number)};   *)
(* it is ERROR when the set is non-empty, PASS when it is empty; an absent *)
(* cell is never listed.                                                   *)
(***************************************************************************)
C12_NumericRowNumbers ==
    ReturnedFrom("validate_numeric_integer") =>
        \A f \in 1..Len(files) : \A j \in Columns(f) : \A r \in SchemaRows(f, j) :
            (r.Type \in {<<"integer">>, <<"number">>} /\ ValuesOf(f, j) # {}) =>
                LET cells == LoadedCells(f, j)
                    parses(v) == IF r.Type = <<"integer">> THEN int_parses(v)
                                 ELSE float_parses(v)
                    bad == LineNumbers({i \in 1..Len(cells) :
                                           cells[i] # NaN /\ ~parses(cells[i])})
                    absent == LineNumbers({i \in 1..Len(cells) : cells[i] = NaN})
                IN  /\ Cardinality(FindingsOf(f, r.Property)) = 1
                    /\ \A fd \in FindingsOf(f, r.Property) :
                          /\ Lists(fd.error_row, bad)
                          /\ Range(fd.error_row) \cap absent = {}
                          /\ fd.check = IF bad = {} THEN PASS ELSE ERROR

\* an integer column 1.5, n/a, x: rows 2 and 4 are listed, the absent row 3 is not
C12_Witness ==
    /\ ReturnedFrom("validate_numeric_integer")
    /\ \E f \in 1..Len(files) : \E j \in Columns(f) : \E r \in SchemaRows(f, j) :
          /\ r.Type = <<"integer">>
          /\ [i \in 1..Len(files[f].lines) |-> files[f].lines[i][j]]
                = << <<"1.5">>, <<"n/a">>, <<"x">> >>
          /\ \E fd \in FindingsOf(f, r.Property) :
                fd.check = ERROR /\ fd.error_row = <<2, 4>>

(***************************************************************************)
(* C13.  Whitespace rule: a column gets a finding if and only if one of    *)
(* its values differs from its leading/trailing-trimmed form; the finding  *)
(* is ERROR and lists exactly the row numbers {i + 2 : the cell at         *)
(* zero-based row i differs from its trimmed form}; other columns, the     *)
(* entirely empty ones included, are not reported.                         *)
(***************************************************************************)
C13_WhitespaceRowNumbers ==
    ReturnedFrom("validate_whitespace_issue") =>
        \A f \in 1..Len(files) : \A j \in Columns(f) :
            LET cells == LoadedCells(f, j)
                untrimmed == {i \in 1..Len(cells) :
                                 cells[i] # NaN /\ cells[i] # strip(cells[i])}
                found == FindingsOf(f, files[f].header[j])
            IN  /\ found # {} <=> untrimmed # {}
                /\ Cardinality(found) <= 1
                /\ \A fd \in found :
                      fd.check = ERROR /\ Lists(fd.error_row, LineNumbers(untrimmed))

\* a column k1, " k1", blank: one ERROR finding on row 3
C13_Witness ==
    /\ ReturnedFrom("validate_whitespace_issue")
    /\ \E f \in 1..Len(files) : \E j \in Columns(f) :
          /\ [i \in 1..Len(files[f].lines) |-> files[f].lines[i][j]]
                = << <<"k1">>, <<" ", "k1">>, <<>> >>
          /\ \E fd \in FindingsOf(f, files[f].header[j]) :
                fd.check = ERROR /\ fd.error_row = <<3>>

(***************************************************************************)
(* Vocabulary of the properties of lists of files                          *)
(***************************************************************************)
RuleOps ==
    { "validate_required_properties", "validate_whitespace_issue",
      "validate_terms_value_sets", "validate_numeric_integer",
      "validate_cross_links", "validate_unique_key_id" }

\* a rule was called, with a commons acronym that is known
RuleCalled == call.op \in RuleOps /\ (call.arg = "" \/ call.arg \in DOMAIN CommonsFeat)

Files == 1..Len(files)

\* file f has a type column with exactly one distinct value
WellTyped(f) == get_type(files[f]).raised = "none"

DistinctNodeTypes ==
    \A f, g \in Files : (f # g /\ WellTyped(f) /\ WellTyped(g)) => FileNode(f) # FileNode(g)

(***************************************************************************)
(* C14.  Content problems are never fatal: when every file has a type      *)
(* column with one distinct value and no two files share a node type,      *)
(* every rule returns its report text and raises nothing, whatever the     *)
(* columns and cells are (a key property without a column in the file, a   *)
(* parent file without the parent-key column).                             *)
(***************************************************************************)
C14_ContentNeverFatal ==
    (RuleCalled /\ DistinctNodeTypes /\ \A f \in Files : WellTyped(f)) =>
        ret.raised = "none"

(***************************************************************************)
(* C15.  A file without the type column fails only itself: when a file of  *)
(* the list has no type column, every rule still gives the findings of all *)
(* the other files of the list.                                            *)
(***************************************************************************)
LacksTypeColumn(f) == ~HasColumn(read_tsv(files[f]), TypeColumn)

C15_BadFileFailsAlone ==
    (RuleCalled /\ \E b \in Files : LacksTypeColumn(b)) =>
        \A g \in Files :
            WellTyped(g) =>
                \E k \in 1..Len(ret.text) : ret.text[k].node = FileNode(g)

(***************************************************************************)
(* C16.  Two files of the same node type: validate_cross_links fails with  *)
(* the ValueError of file_type_mapping and gives no finding; a mapping     *)
(* that exists is injective; each of the five other rules completes and    *)
(* reports every file of the list, in list order (unless the rule fails on *)
(* one of the files taken alone).                                          *)
(***************************************************************************)
SharedNodeType == (\A f \in Files : WellTyped(f)) /\ ~DistinctNodeTypes

FailsAlone(f) ==
    /\ call.op = "validate_unique_key_id"
    /\ validate_unique_key_id(props_df, <<files[f]>>).raised # "none"

LinkColumns(f) == {j \in Columns(f) : Contains(files[f].header[j], Dot)}

HasFile(node) == \E g \in Files : FileNode(g) = node

\* every parent file of a linking column with values has the parent-key column
ParentKeyColumnsPresent ==
    \A f \in Files : \A j \in LinkColumns(f) : \A g \in Files :
        (ValuesOf(f, j) # {} /\ FileNode(g) = <<files[f].header[j][1]>>) =>
            Contains(files[g].header, <<files[f].header[j][3]>>)

RuleSections ==
    SelectSeq(flow.report, LAMBDA sec : sec.section \in RuleOps)

IsPrefix(s, t) == Len(s) <= Len(t) /\ \A i \in 1..Len(s) : s[i] = t[i]

Parts(level) == {ret.text[i] : i \in {k \in 1..Len(ret.text) : ret.text[k].level = level}}

C19_SampleNotInDbgap ==
    call.op = "find_sample_not_in_dbgap" =>
        LET db == dbgap.db_sample_dict
            missing == {i \in 1..Len(db) :
                           ~Contains(dict_keys(dbgap.dbgap_sample_dict), db[i][1])}
            registered == {i \in missing :
                              Contains(dict_keys(dbgap.dbgap_ptc_dict), db[i][2])}
            unregistered == missing \ registered
        IN  /\ (registered # {} /\ unregistered # {}) =>
                  /\ \E w \in Parts("WARNING") : w.count = Cardinality(registered)
                  /\ \E e \in Parts("ERROR") : e.count = Cardinality(unregistered)
            /\ missing = {} =>
                  /\ Len(ret.text) = 1
                  /\ ret.text[1].level = "INFO"
                  /\ ret.text[1].text = "Samples in DB passed validation"

(***************************************************************************)
(* C20.  find_db_ptc_consent_zero gives exactly one of three messages:     *)
(* ERROR "No overlap of participants found" when no DB participant is in   *)
(* dbGaP; ERROR "Found n participant(s) in DB with consent code of 0" with *)
(* n the number of DB participants whose dbGaP consent code is 0, when     *)
(* n > 0; INFO "All participants in DB have consent code non-0" otherwise. *)
(***************************************************************************)
C20_ConsentZero ==
    call.op = "find_db_ptc_consent_zero" =>
        LET db == dbgap.db_ptc_list
            overlap == {i \in 1..Len(db) :
                           \E k \in 1..Len(dbgap.dbgap_ptc_dict) :
                               dbgap.dbgap_ptc_dict[k][1] = db[i]}
            zero == {i \in 1..Len(db) :
                        \E k \in 1..Len(dbgap.dbgap_ptc_dict) :
                            dbgap.dbgap_ptc_dict[k] = <<db[i], 0>>}
        IN  /\ Len(ret.text) = 1
            /\ IF overlap = {}
               THEN /\ ret.text[1].level = "ERROR"
                    /\ ret.text[1].text
                          = "No overlap of participants found between DB and dbGaP"
               ELSE IF zero # {}
               THEN /\ ret.text[1].level = "ERROR"
                    /\ ret.text[1].count = Cardinality(zero)
                    /\ ret.text[1].text
                          = "participant(s) in DB with consent code of 0 in dbGaP"
               ELSE /\ ret.text[1].level = "INFO"
                    /\ ret.text[1].text
                          = "All participants in DB have consent code non-0"

\* DB [ptc_1, ptc_3] against dbGaP {ptc_1: 0, ptc_2: 1}: ERROR, one participant
C20_Witness ==
    /\ call.op = "find_db_ptc_consent_zero"
    /\ dbgap.db_ptc_list = <<"ptc_1", "ptc_3">>
    /\ dbgap.dbgap_ptc_dict = << <<"ptc_1", 0>>, <<"ptc_2", 1>> >>
    /\ ret.text[1].level = "ERROR" /\ ret.text[1].count = 1

(***************************************************************************)
(* C21.  Required-flag policy: the required-properties rule checks a       *)
(* property of the file's node type if and only if the schema marks it     *)
(* required as boolean true or as "Yes"; a property whose Req is any other *)
(* value or is missing is never checked.  This holds for every schema      *)
(* table, one that mixes true/false with Yes/No/Preferred included.        *)
(***************************************************************************)
\* the Req of the property of column j in the model description
ReqOf(f, j) ==
    IF files[f].header[j] \in DOMAIN model_desc.PropDefinitions
    THEN model_desc.PropDefinitions[files[f].header[j]].Req
    ELSE "absent"

C21_RequiredFlagPolicy ==
    ReturnedFrom("validate_required_properties") =>
        \A f \in Files : \A j \in Columns(f) :
            FindingsOf(f, files[f].header[j]) # {}
                <=> (SchemaRows(f, j) # {} /\ ReqOf(f, j) \in {"True", "Yes"})

(***************************************************************************)
(* C22.  Unique-key rule, no key declared: for every file whose node type  *)
(* has no property with the key flag true in the schema, whether the flag  *)
(* of its properties is absent or explicitly false, the rule emits the     *)
(* WARNING that the node file contains no Key id property, and no ERROR.   *)
(***************************************************************************)
\* the rows of the schema table for the node of file f
NodeRows(f) == {r \in Range(props_df) : r.Node = FileNode(f)}

NoKeyWarning(f) ==
    \E k \in 1..Len(ret.text[f].msgs) :
        ret.text[f].msgs[k].text = "WARNING: node file contains no Key id property"

C22_NoKeyDeclared ==
    ReturnedFrom("validate_unique_key_id") =>
        \A f \in Files :
            (\A r \in NodeRows(f) : r.Key # "True") =>
                /\ NoKeyWarning(f)
                /\ \A k \in 1..Len(ret.text[f].table) :
                      ret.text[f].table[k].check # ERROR

(***************************************************************************)
(* Vocabulary of the properties of the rows of a file with linking columns *)
(***************************************************************************)
Rows(f) == 1..Len(files[f].lines)

\* the linking columns in which row i of file f has a value
PopulatedLinks(f, i) == {j \in LinkColumns(f) : LoadedCells(f, j)[i] # NaN}

\* the rows the message with the given text lists for file f, <<>> without it
MsgRows(f, text) ==
    Flatten([k \in 1..Len(ret.text[f].msgs) |->
                IF ret.text[f].msgs[k].text = text
                THEN <<ret.text[f].msgs[k].rows>> ELSE <<>>])

(***************************************************************************)
(* C23.  Cross-links rule, multiple links: when a file has more than one   *)
(* linking column, the WARNING row list is exactly {i + 2 : row i has a    *)
(* non-empty value in more than one linking column}, rows whose populated  *)
(* linking columns all hold the same value included.                       *)
(***************************************************************************)
C23_MultipleLinks ==
    ReturnedFrom("validate_cross_links") =>
        \A f \in Files :
            Cardinality(LinkColumns(f)) > 1 =>
                LET multiple == LineNumbers({i \in Rows(f) :
                                    Cardinality(PopulatedLinks(f, i)) > 1})
                    listed == MsgRows(f,
                                "WARNING: The entry on row contains multiple links")
                IN  IF multiple = {} THEN listed = <<>>
                    ELSE Len(listed) = 1 /\ Lists(listed[1], multiple)

(***************************************************************************)
(* C24.  Cross-links rule, zero links: when a file has a linking column (a *)
(* column whose name contains "."), the ERROR "contains ZERO links" lists  *)
(* exactly {i + 2 : row i has no value in any linking column} and is       *)
(* absent when that set is empty; a file without a linking column gets     *)
(* neither this ERROR nor any per-column finding.                          *)
(***************************************************************************)
C24_ZeroLinks ==
    ReturnedFrom("validate_cross_links") =>
        \A f \in Files :
            LET zero == LineNumbers({i \in Rows(f) : PopulatedLinks(f, i) = {}})
                listed == MsgRows(f, "ERROR: The entry on row contains ZERO links")
            IN  IF LinkColumns(f) = {}
                THEN listed = <<>> /\ ret.text[f].table = <<>>
                ELSE IF zero = {} THEN listed = <<>>
                ELSE /\ Len(listed) = 1
                     /\ Lists(listed[1], zero)
                     /\ Ascending(listed[1])

\* a child of two linking columns whose only row is blank in both: row 2 is
\* listed; the parent file of the list has no linking column and no finding
C24_Witness ==
    /\ ReturnedFrom("validate_cross_links")
    /\ Len(files) = 2
    /\ Cardinality(LinkColumns(1)) = 2 /\ LinkColumns(2) = {}
    /\ MsgRows(1, "ERROR: The entry on row contains ZERO links") = << <<2>> >>
    /\ ret.text[2].msgs = <<>> /\ ret.text[2].table = <<>>

(***************************************************************************)
(* C25.  Required-properties rule, empty table: for a file that has the    *)
(* header row with a required column and zero data rows, the rule does not *)
(* fail and reports PASS for that required column.                         *)
(***************************************************************************)
\* file f has the type column in its header and no data row
HeaderOnly(f) == Contains(files[f].header, TypeColumn) /\ files[f].lines = <<>>

\* the property is required by the schema table (for some node)
RequiredInSchema(property) ==
    \E r \in Range(props_df) :
        r.Property = property /\ r.Required = required_value(props_df)

C25_EmptyTablePasses ==
    (call.op = "validate_required_properties" /\ \E f \in Files : HeaderOnly(f)) =>
        /\ ret.raised = "none"
        /\ \A f \in Files : \A j \in Columns(f) :
              (HeaderOnly(f) /\ RequiredInSchema(files[f].header[j])) =>
                  \E fd \in FindingsOf(f, files[f].header[j]) : fd.check = PASS

(***************************************************************************)
(* C26.  In the table get_prop_dict_df produces, (Node, Property) pairs    *)
(* are unique: no two rows have the same node and the same property, for   *)
(* every model description, one whose node lists a property name twice in  *)
(* Props included.                                                         *)
(***************************************************************************)
C26_UniqueNodeProperty ==
    Normalized =>
        \A a, b \in 1..Len(norm.table) :
            (/\ norm.table[a].Node = norm.table[b].Node
             /\ norm.table[a].Property = norm.table[b].Property) => a = b

(***************************************************************************)
(* C27.  In every row the normalizer produces, allowed_values (column      *)
(* "Example value") is non-empty only if the resolved type contains        *)
(* "enum"; a property whose resolved type has no enumeration (string,      *)
(* integer, number, datetime, array[string], a scalar value kind adopted   *)
(* from a structured type) has the empty sequence, even when its type      *)
(* structure carries an Enum list.                                         *)
(***************************************************************************)
C27_AllowedValuesOnlyForEnum ==
    Normalized =>
        \A row \in Range(norm.table) :
            row.Example_value # <<>> => Contains(row.Type, "enum")

(***************************************************************************)
(* C28.  No rule changes its inputs: a call of one of the six rules, alone *)
(* or as a task of the report flow, leaves the schema property table, the  *)
(* list of input files and the content of every file as they were; its     *)
(* only effect is the report text it returns.                              *)
(***************************************************************************)
C28_RulesChangeNoInput ==
    [][(<<call, ret, flow>>' # <<call, ret, flow>>) =>
           /\ props_df' = props_df
           /\ files' = files
           /\ model_desc' = model_desc]_vars

\* a rule has returned a finding on a schema table and a file list that are
\* not empty
C28_Witness ==
    /\ RuleCalled /\ ret.raised = "none"
    /\ props_df # <<>> /\ files # <<>>
    /\ \E f \in Files : ret.text[f].table # <<>>

(***************************************************************************)
(* C29.  metadata_validation_str reports sample differences in both        *)
(* directions: the summary holds the WARNING/ERROR of                      *)
(* find_sample_not_in_dbgap whenever a DB sample id is absent from the     *)
(* dbGaP sample dict, and the WARNING of find_sample_not_in_db whenever a  *)
(* dbGaP sample id is absent from the DB sample dict; the six checks come  *)
(* in the order participants-not-in-dbGaP, participants-not-in-DB,         *)
(* consent-zero, samples-not-in-dbGaP, samples-not-in-DB,                  *)
(* sample-participant-match.                                               *)
(***************************************************************************)
\* the levels of the parts the summary holds for a check
LevelsOf(check) ==
    UNION {{ret.text[k].message[i].level : i \in 1..Len(ret.text[k].message)} :
              k \in {n \in 1..Len(ret.text) : ret.text[n].check = check}}

C29_BothDirections ==
    call.op = "metadata_validation_str" =>
        LET db == dict_keys(dbgap.db_sample_dict)
            gap == dict_keys(dbgap.dbgap_sample_dict)
        IN  /\ (\E i \in 1..Len(db) : ~Contains(gap, db[i])) =>
                  LevelsOf("find_sample_not_in_dbgap") \cap {"WARNING", "ERROR"} # {}
            /\ (\E i \in 1..Len(gap) : ~Contains(db, gap[i])) =>
                  "WARNING" \in LevelsOf("find_sample_not_in_db")
            /\ [k \in 1..Len(ret.text) |-> ret.text[k].check]
                  = << "find_ptc_not_in_dbGaP", "find_ptc_not_in_db",
                       "find_db_ptc_consent_zero", "find_sample_not_in_dbgap",
                       "find_sample_not_in_db", "sample_ptc_check" >>

(***************************************************************************)
(* C30.  Version fallback: when no study version is found in the DB the    *)
(* flow passes version "0" to SstrHaul, and SstrHaul requests the subjects *)
(* of the study without a version suffix (/study/<phs>/subjects), so that  *)
(* validation runs against the latest dbGaP version as the report states;  *)
(* the suffix .v<n> is used only for a version other than 0.               *)
(***************************************************************************)
C30_VersionFallback ==
    (call.op = "validation_against_dbgap" /\ ret.raised = "none") =>
        LET phs == call.arg.study_accession
            version == call.arg.study_version
        IN  ret.text[1].request =
                IF version = None
                THEN <<"/study/", phs, "/subjects">>
                ELSE <<"/study/", phs, ".v", version.repr, "/subjects">>

=============================================================================
